---- MODULE Spec2Model ----
(***************************************************************************)
(* A model of the build-time template resolver                             *)
(* (packages/compat/src/resolver-transform.ts): the TemplateResolver AST   *)
(* plugin and its ScopeStack.                                              *)
(*                                                                         *)
(* Strings are sequences of tokens: "hello-world" is <<"hello-world">>,    *)
(* "something/hello-world" is <<"something", "/", "hello-world">>,         *)
(* "@arg" is <<"@", "arg">> and "h.title" is <<"h", ".", "title">>, so     *)
(* that includes(), startsWith(), split('.') and template literals are     *)
(* computed on the text and not assumed.                                   *)
(*                                                                         *)
(* The template is not fixed: the walk is generated node by node, every    *)
(* visit choosing the node it meets from bounded sets, so the reachable    *)
(* states cover every template within the bounds.                          *)
(***************************************************************************)
EXTENDS Integers, Sequences, FiniteSets, TLC

VARIABLES
    options,        \* config.options: the four UserConfig toggles
    auditHandler,   \* TRUE iff globalThis.embroider_audit was set at construction
    locals,         \* env.locals: [defined, names], names empty when undefined
    rulesCfg,       \* config.activePackageRules (already preprocessed)
    limits,         \* the bounds of this walk: [nodes, depth]
    scopeStack,     \* ScopeStack.stack, index 1 is stack[0]
    open,           \* the nodes the traversal is inside of, outermost first
    imports,        \* jsutils' import bindings, in creation order
    uses,           \* the <<specifier, identifier>> substituted at each use site, in order
    audit,          \* the diagnostics handed to the audit handler, in order
    thrown,         \* <<>> or <<error>>: the error that ended the walk
    dropped,        \* number of errors reportError let fall
    reported,       \* every error handed to reportError, in order (ghost)
    rulesBuilt,     \* TRUE once the memoized `rules` getter has run
    phase,          \* "start" | "walk" | "done"
    visited,        \* number of nodes whose handler has run
    last            \* what the last handler did (ghost, for the properties)

vars == <<options, auditHandler, locals, rulesCfg, limits, scopeStack, open,
          imports, uses, audit, thrown, dropped, reported, rulesBuilt, phase, visited,
          last>>

(***************************************************************************)
(* Bounds                                                                  *)
(***************************************************************************)
MaxNodes == 1
MaxDepth == 1
MaxSites == 2
MaxSiteDepth == 1
MaxAuditNodes == 3
MaxAuditDepth == 1
MaxScopeNodes == 3
MaxScopeDepth == 2
MaxYieldNodes == 3
MaxYieldDepth == 2

(***************************************************************************)
(* Strings as token sequences                                              *)
(***************************************************************************)
S(tok) == <<tok>>

includes(str, tok) == \E i \in 1..Len(str) : str[i] = tok

startsWith(str, tok) == Len(str) > 0 /\ str[1] = tok

RECURSIVE split(_, _)
\* String.prototype.split(sep): the pieces between the separator tokens
split(str, sep) ==
    IF ~includes(str, sep) THEN <<str>>
    ELSE LET i == CHOOSE k \in 1..Len(str) :
                      str[k] = sep /\ \A j \in 1..(k-1) : str[j] # sep
         IN <<SubSeq(str, 1, i-1)>> \o split(SubSeq(str, i+1, Len(str)), sep)

indexOf(list, x) ==
    IF \E i \in 1..Len(list) : list[i] = x
    THEN (CHOOSE i \in 1..Len(list) : list[i] = x /\ \A j \in 1..(i-1) : list[j] # x) - 1
    ELSE -1

listIncludes(list, x) == \E i \in 1..Len(list) : list[i] = x

(***************************************************************************)
(* Configuration: options, file and package rules                          *)
(***************************************************************************)
appRoot == <<"/app">>

\* env.filename of the template being processed
filename == <<"/app", "/", "templates/application.hbs">>

\* path.join of a root and a relative path
join(root, path) == root \o <<"/">> \o path

builtInKeywords ==
    { S("-get-dynamic-var"), S("-in-element"), S("-with-dynamic-vars"), S("action"),
      S("array"), S("component"), S("concat"), S("debugger"), S("each-in"), S("each"),
      S("fn"), S("get"), S("has-block-params"), S("has-block"), S("hasBlock"),
      S("hasBlockParams"), S("hash"), S("helper"), S("if"), S("in-element"),
      S("input"), S("let"), S("link-to"), S("loc"), S("log"), S("modifier"),
      S("mount"), S("mut"), S("on"), S("outlet"), S("partial"), S("query-params"),
      S("readonly"), S("textarea"), S("unbound"), S("unique-id"), S("unless"),
      S("with"), S("yield") }

\* One positional entry of yieldsSafeComponents / yieldsArguments: `true`, a
\* source argument name, a mapping from field name to either, or nothing.
YUndef == [t |-> "undef", v |-> <<>>, m |-> <<>>]
YTrue == [t |-> "true", v |-> <<>>, m |-> <<>>]
YStr(arg) == [t |-> "str", v |-> arg, m |-> <<>>]
\* a mapping is a sequence of <<field, value>> pairs; value <<"true">> is `true`
YMap(pairs) == [t |-> "map", v |-> <<>>, m |-> pairs]

\* list[i] of a JavaScript array (0-based), undefined past its end
YAt(list, i) == IF i + 1 \in 1..Len(list) THEN list[i + 1] ELSE YUndef

\* entry[field] of a mapping entry: <<>> when the field is absent
YField(entry, field) ==
    IF \E k \in 1..Len(entry.m) : entry.m[k][1] = field
    THEN <<entry.m[CHOOSE k \in 1..Len(entry.m) : entry.m[k][1] = field][2]>>
    ELSE <<>>

\* A PreprocessedComponentRule
Rule(ignore, args, ysc, ya, dis, sip) ==
    [safeToIgnore |-> ignore, argumentsAreComponents |-> args,
     yieldsSafeComponents |-> ysc, yieldsArguments |-> ya,
     disambiguate |-> dis, safeInteriorPaths |-> sip]

EmptyRule == Rule(FALSE, <<>>, <<>>, <<>>, <<>>, <<>>)

\* the component rules a package may declare, keyed by snippet
HelloWorldRule ==
    Rule(FALSE, <<S("iAmAComponent")>>, <<YTrue, YMap(<<<<S("title"), S("true")>>>>)>>,
         <<YMap(<<<<S("body"), S("forwarded")>>>>), YMap(<<<<S("body"), S("forwarded")>>>>),
           YStr(S("forwarded"))>>,
         <<>>, <<>>)

ThisOneRule == Rule(TRUE, <<>>, <<>>, <<>>, <<>>, <<>>)

\* the template rule of the current file
FileRule ==
    Rule(FALSE, <<>>, <<>>, <<>>,
         << <<S("as-component"), "component">>, <<S("as-helper"), "helper">>,
            <<S("as-data"), "data">>, <<S("this-one"), "helper">>,
            <<S("if"), "component">> >>,
         <<<<"this", ".", "safe">>>>)

\* One ActivePackageRules entry.
PackageRule ==
    [components |-> << <<S("<HelloWorld />"), HelloWorldRule>>,
                       <<S("{{this-one}}"), ThisOneRule>> >>,
     appTemplates |-> << <<S("templates/application.hbs"), FileRule>> >>,
     addonTemplates |-> <<>>,
     roots |-> <<appRoot>>]

RulesChoices == { <<>>, <<PackageRule>> }

\* a package rule one of whose component snippets is no invocation
BrokenRule ==
    [PackageRule EXCEPT !.components = Append(@, <<S("hello world"), EmptyRule>>)]

OptionsChoices ==
    [staticComponents : BOOLEAN, staticHelpers : BOOLEAN, staticModifiers : BOOLEAN,
     allowUnsafeDynamicComponents : BOOLEAN]

(***************************************************************************)
(* The mutable state of one TemplateResolver, as a record the handlers     *)
(* thread through their calls; `errs` collects what the running handler    *)
(* passed to reportError and `fired` the markers whose exit callback it    *)
(* ran.                                                                    *)
(***************************************************************************)
Machine ==
    [scopeStack |-> scopeStack, open |-> open, imports |-> imports, uses |-> uses,
     audit |-> audit, thrown |-> thrown, dropped |-> dropped, reported |-> reported,
     rulesBuilt |-> rulesBuilt, errs |-> <<>>, fired |-> <<>>]

\* a handler's result: the machine after it and the value it returns
Ret(m, r) == [m |-> m, r |-> r]

\* `null` / `undefined` resolution
NoRes ==
    [type |-> "none", specifier |-> <<>>, nameHint |-> <<>>, yieldsComponents |-> <<>>,
     yieldsArguments |-> <<>>, argumentsAreComponents |-> <<>>, message |-> <<>>,
     detail |-> <<>>]

ComponentResolution(specifier, hint, rule) ==
    [NoRes EXCEPT !.type = "component", !.specifier = specifier, !.nameHint = hint,
                  !.yieldsComponents = rule.yieldsSafeComponents,
                  !.yieldsArguments = rule.yieldsArguments,
                  !.argumentsAreComponents = rule.argumentsAreComponents]

HelperResolution(specifier, hint) ==
    [NoRes EXCEPT !.type = "helper", !.specifier = specifier, !.nameHint = hint]

ModifierResolution(specifier, hint) ==
    [NoRes EXCEPT !.type = "modifier", !.specifier = specifier, !.nameHint = hint]

ResolutionFail(message, detail) ==
    [NoRes EXCEPT !.type = "error", !.message = message, !.detail = detail]

(***************************************************************************)
(* Rule Index                                                              *)
(***************************************************************************)
\* snippetToDasherizedName of dasherize-component-name: <<>> is `null`
snippetToDasherizedName(snippet) ==
    CASE snippet = S("<HelloWorld />") -> <<S("hello-world")>>
      [] snippet = S("{{this-one}}") -> <<S("this-one")>>
      [] snippet = S("{{component \"this-one\"}}") -> <<S("this-one")>>
      [] OTHER -> <<>>

RECURSIVE FlatMap(_, _)
FlatMap(Op(_), list) ==
    IF list = <<>> THEN <<>> ELSE Op(Head(list)) \o FlatMap(Op, Tail(list))

\* the Error standardDasherize throws for a snippet it gets no name from
SnippetError ==
    [type |-> "fatal", specifier |-> <<>>, nameHint |-> <<>>, yieldsComponents |-> <<>>,
     yieldsArguments |-> <<>>, argumentsAreComponents |-> <<>>,
     message |-> <<"unable to parse component snippet">>, detail |-> <<>>]

\* the rules getter meets a snippet standardDasherize throws for
Malformed ==
    \E r \in 1..Len(rulesCfg) :
        \E e \in 1..Len(rulesCfg[r].components) :
            snippetToDasherizedName(rulesCfg[r].components[e][1]) = <<>>

standardDasherize(snippet) == snippetToDasherizedName(snippet)[1]

\* the `components` map of the rules getter, as <<key, rule>> entries in
\* insertion order
ruleComponents ==
    LET perRule(rule) ==
            LET entry(e) == << <<standardDasherize(e[1]), e[2]>> >>
            IN FlatMap(entry, rule.components)
    IN IF Malformed THEN <<>> ELSE FlatMap(perRule, rulesCfg)

\* the `files` map of the rules getter
ruleFiles ==
    LET perRule(rule) ==
            LET app(e) == << <<join(appRoot, e[1]), e[2]>> >>
                addon(e) ==
                    LET perRoot(root) == << <<join(root, e[1]), e[2]>> >>
                    IN FlatMap(perRoot, rule.roots)
            IN FlatMap(app, rule.appTemplates) \o FlatMap(addon, rule.addonTemplates)
    IN IF Malformed THEN <<>> ELSE FlatMap(perRule, rulesCfg)

\* Map.get: the value of the last entry set under the key, <<>> when there is none
MapGet(map, key) ==
    IF \E i \in 1..Len(map) : map[i][1] = key
    THEN <<map[CHOOSE i \in 1..Len(map) :
                   map[i][1] = key /\ \A j \in (i+1)..Len(map) : map[j][1] # key][2]>>
    ELSE <<>>

\* the rules getter handing its failure to reportError
rulesThroughChannel(m) ==
    IF ~Malformed THEN [m EXCEPT !.rulesBuilt = TRUE]
    ELSE IF ~auditHandler /\ ~options.allowUnsafeDynamicComponents
    THEN [m EXCEPT !.thrown = <<SnippetError>>]
    ELSE IF auditHandler
    THEN [m EXCEPT !.audit = Append(@, SnippetError), !.reported = Append(@, SnippetError)]
    ELSE [m EXCEPT !.dropped = @ + 1, !.reported = Append(@, SnippetError)]

\* the memoized `rules` getter: the machine after the first access, or after
\* the throw that leaves no index behind
rules(m) ==
    IF Malformed THEN [m EXCEPT !.thrown = <<SnippetError>>]
    ELSE [m EXCEPT !.rulesBuilt = TRUE]

findRules(absPath) == MapGet(ruleFiles, absPath)

isIgnoredComponent(dasherizedName) ==
    LET rule == MapGet(ruleComponents, dasherizedName)
    IN rule # <<>> /\ rule[1].safeToIgnore

staticComponentsEnabled == options.staticComponents \/ auditHandler

staticHelpersEnabled == options.staticHelpers \/ auditHandler

\* the modifier toggle as configured, the collector not counting
staticModifiersConfigured == options.staticModifiers

staticModifiersEnabled == options.staticModifiers \/ auditHandler

(***************************************************************************)
(* Diagnostics Channel                                                     *)
(***************************************************************************)
\* reportError with the tolerance test put first: an error is thrown even
\* when a collector is registered
reportErrorToleranceFirst(m, dep) ==
    LET m1 == [m EXCEPT !.errs = Append(@, dep), !.reported = Append(@, dep)]
    IN IF ~options.allowUnsafeDynamicComponents
       THEN [m1 EXCEPT !.thrown = <<dep>>]
       ELSE IF auditHandler
            THEN [m1 EXCEPT !.audit = Append(@, dep)]
            ELSE [m1 EXCEPT !.dropped = @ + 1]

\* reportError with a collector that keeps the latest error only
reportErrorLatestOnly(m, dep) ==
    LET m1 == [m EXCEPT !.errs = Append(@, dep), !.reported = Append(@, dep)]
    IN IF ~auditHandler /\ ~options.allowUnsafeDynamicComponents
       THEN [m1 EXCEPT !.thrown = <<dep>>]
       ELSE IF auditHandler
            THEN [m1 EXCEPT !.audit = <<dep>>]
            ELSE [m1 EXCEPT !.dropped = @ + 1]

reportError(m, dep) ==
    LET m1 == [m EXCEPT !.errs = Append(@, dep), !.reported = Append(@, dep)]
    IN IF ~auditHandler /\ ~options.allowUnsafeDynamicComponents
       THEN [m1 EXCEPT !.thrown = <<dep>>]
       ELSE IF auditHandler
            THEN [m1 EXCEPT !.audit = Append(@, dep)]
            ELSE [m1 EXCEPT !.dropped = @ + 1]

(***************************************************************************)
(* Resolution of a name to a component, helper or modifier                 *)
(***************************************************************************)
Last(list) == list[Len(list)]

\* the extra underscore keeps the hint from colliding with an HTML element
nameHint(path) == Last(split(path, "@")) \o <<"_">>

\* rules.components.get(name), defaulting every field as the code does
componentRulesOf(name) ==
    LET rule == MapGet(ruleComponents, name)
    IN IF rule # <<>> THEN rule[1] ELSE EmptyRule

\* targetComponent without its test of staticComponentsEnabled
targetComponentTogglesUnchecked(m, name) ==
    IF name \in builtInKeywords THEN Ret(m, NoRes)
    ELSE IF isIgnoredComponent(name) THEN Ret(rules(m), NoRes)
    ELSE Ret(rules(m),
             ComponentResolution(<<"#embroider_compat/components/">> \o name,
                                 nameHint(name), componentRulesOf(name)))

targetComponent(m, name) ==
    IF ~staticComponentsEnabled THEN Ret(m, NoRes)
    ELSE IF name \in builtInKeywords THEN Ret(m, NoRes)
    ELSE IF rules(m).thrown # <<>> THEN Ret(rules(m), NoRes)
    ELSE IF isIgnoredComponent(name) THEN Ret(rules(m), NoRes)
    ELSE Ret(rules(m),
             ComponentResolution(<<"#embroider_compat/components/">> \o name,
                                 nameHint(name), componentRulesOf(name)))

\* a ComponentLocator
Locator(type, path) == [type |-> type, path |-> path]

ImpliedMessage(impliedBecause) ==
    IF impliedBecause = <<>> THEN <<"Unsafe dynamic component">>
    ELSE <<"argument ">> \o impliedBecause[1].argumentName \o <<" to component ">>
         \o impliedBecause[1].componentName
         \o <<" is treated as a component, but the value you're passing is dynamic">>

targetComponentHelper(m, component, impliedBecause) ==
    IF ~staticComponentsEnabled THEN Ret(m, NoRes)
    ELSE LET message == ImpliedMessage(impliedBecause)
         IN IF component.type = "other"
            THEN Ret(m, ResolutionFail(message, <<"cannot statically analyze this expression">>))
            ELSE IF component.type = "path"
            THEN LET ownComponentRules == findRules(filename)
                 IN IF rules(m).thrown # <<>> THEN Ret(rules(m), NoRes)
                    ELSE IF /\ ownComponentRules # <<>>
                       /\ listIncludes(ownComponentRules[1].safeInteriorPaths, component.path)
                    THEN Ret(rules(m), NoRes)
                    ELSE Ret(rules(m), ResolutionFail(message, component.path))
            ELSE targetComponent(m, component.path)

\* targetHelper without its test of builtInKeywords
targetHelperKeywordsUnchecked(m, path) ==
    IF ~staticHelpersEnabled THEN Ret(m, NoRes)
    ELSE Ret(m, HelperResolution(<<"#embroider_compat/helpers/">> \o path, nameHint(path)))

targetHelper(m, path) ==
    IF ~staticHelpersEnabled THEN Ret(m, NoRes)
    ELSE IF path \in builtInKeywords THEN Ret(m, NoRes)
    ELSE Ret(m, HelperResolution(<<"#embroider_compat/helpers/">> \o path, nameHint(path)))

\* ownComponentRules?.disambiguate[path]: <<>> when absent
disambiguateOf(path) ==
    LET ownComponentRules == findRules(filename)
    IN IF ownComponentRules = <<>> THEN <<>>
       ELSE LET dis == ownComponentRules[1].disambiguate
            IN IF \E i \in 1..Len(dis) : dis[i][1] = path
               THEN <<dis[CHOOSE i \in 1..Len(dis) : dis[i][1] = path][2]>>
               ELSE <<>>

AmbiguousSyntax(path) ==
    ResolutionFail(<<"unsupported ambiguous syntax">>,
                   <<"\"{{">> \o path \o <<"}}\" is ambiguous">>)

AmbiguousToggles(path) ==
    ResolutionFail(<<"unsupported ambiguity between helper and component">>,
                   <<"this use of \"{{">> \o path
                   \o <<"}}\": your settings for staticHelpers and staticComponents do not agree">>)

\* targetAmbiguous without the case of a call that has no arguments
targetAmbiguousArgsUnchecked(m, path, hasArgs, dis) ==
    IF dis # <<>> /\ dis[1] = "component" THEN targetComponent(m, path)
    ELSE IF dis # <<>> /\ dis[1] = "helper" THEN targetHelper(m, path)
    ELSE IF dis # <<>> /\ dis[1] = "data" THEN Ret(m, NoRes)
    ELSE IF ~staticHelpersEnabled \/ ~staticComponentsEnabled
    THEN Ret(reportError(m, AmbiguousToggles(path)), NoRes)
    ELSE Ret(m, ComponentResolution(<<"#embroider_compat/ambiguous/">> \o path,
                                    nameHint(path), componentRulesOf(path)))

\* targetAmbiguous content with either toggle on, where the code wants both
targetAmbiguousEitherToggle(m, path, hasArgs, dis) ==
    IF dis # <<>> /\ dis[1] = "component" THEN targetComponent(m, path)
    ELSE IF dis # <<>> /\ dis[1] = "helper" THEN targetHelper(m, path)
    ELSE IF dis # <<>> /\ dis[1] = "data" THEN Ret(m, NoRes)
    ELSE IF ~hasArgs /\ ~includes(path, "/") /\ ~includes(path, "@")
    THEN Ret(reportError(m, AmbiguousSyntax(path)), NoRes)
    ELSE IF ~staticHelpersEnabled /\ ~staticComponentsEnabled
    THEN Ret(reportError(m, AmbiguousToggles(path)), NoRes)
    ELSE Ret(m, ComponentResolution(<<"#embroider_compat/ambiguous/">> \o path,
                                    nameHint(path), componentRulesOf(path)))

\* targetAmbiguous looking at the arguments before the disambiguate entry
targetAmbiguousSyntaxFirst(m, path, hasArgs, dis) ==
    IF ~hasArgs /\ ~includes(path, "/") /\ ~includes(path, "@")
    THEN Ret(reportError(m, AmbiguousSyntax(path)), NoRes)
    ELSE IF dis # <<>> /\ dis[1] = "component" THEN targetComponent(m, path)
    ELSE IF dis # <<>> /\ dis[1] = "helper" THEN targetHelper(m, path)
    ELSE IF dis # <<>> /\ dis[1] = "data" THEN Ret(m, NoRes)
    ELSE IF ~staticHelpersEnabled \/ ~staticComponentsEnabled
    THEN Ret(reportError(m, AmbiguousToggles(path)), NoRes)
    ELSE Ret(m, ComponentResolution(<<"#embroider_compat/ambiguous/">> \o path,
                                    nameHint(path), componentRulesOf(path)))

\* the rest of targetHelperOrComponent once the obvious cases are out, `dis`
\* being ownComponentRules?.disambiguate[path]
targetAmbiguous(m, path, hasArgs, dis) ==
    IF dis # <<>> /\ dis[1] = "component" THEN targetComponent(m, path)
    ELSE IF dis # <<>> /\ dis[1] = "helper" THEN targetHelper(m, path)
    ELSE IF dis # <<>> /\ dis[1] = "data" THEN Ret(m, NoRes)
    ELSE IF ~hasArgs /\ ~includes(path, "/") /\ ~includes(path, "@")
    THEN Ret(reportError(m, AmbiguousSyntax(path)), NoRes)
    ELSE IF ~staticHelpersEnabled \/ ~staticComponentsEnabled
    THEN Ret(reportError(m, AmbiguousToggles(path)), NoRes)
    ELSE Ret(m, ComponentResolution(<<"#embroider_compat/ambiguous/">> \o path,
                                    nameHint(path), componentRulesOf(path)))

\* targetHelperOrComponent without its test of isIgnoredComponent
targetHelperOrComponentIgnoredUnchecked(m, path, hasArgs) ==
    IF (~staticHelpersEnabled /\ ~staticComponentsEnabled) \/ path \in builtInKeywords
    THEN Ret(m, NoRes)
    ELSE targetAmbiguous(rules(m), path, hasArgs, disambiguateOf(path))

targetHelperOrComponent(m, path, hasArgs) ==
    IF (~staticHelpersEnabled /\ ~staticComponentsEnabled) \/ path \in builtInKeywords
    THEN Ret(m, NoRes)
    ELSE IF rules(m).thrown # <<>> THEN Ret(rules(m), NoRes)
    ELSE IF isIgnoredComponent(path) THEN Ret(rules(m), NoRes)
    ELSE targetAmbiguous(rules(m), path, hasArgs, disambiguateOf(path))

\* targetElementModifier without its test of staticModifiersEnabled
targetElementModifierTogglesUnchecked(m, path) ==
    IF path \in builtInKeywords THEN Ret(m, NoRes)
    ELSE Ret(m, ModifierResolution(<<"#embroider_compat/modifiers/">> \o path, nameHint(path)))

targetElementModifier(m, path) ==
    IF ~staticModifiersEnabled THEN Ret(m, NoRes)
    ELSE IF path \in builtInKeywords THEN Ret(m, NoRes)
    ELSE Ret(m, ModifierResolution(<<"#embroider_compat/modifiers/">> \o path, nameHint(path)))

targetDynamicModifier(m, modifier) ==
    IF ~staticModifiersEnabled THEN Ret(m, NoRes)
    ELSE IF modifier.type = "literal" THEN targetElementModifier(m, modifier.path)
    ELSE Ret(m, ResolutionFail(<<"Unsafe dynamic modifier">>,
                               <<"cannot statically analyze this expression">>))

targetDynamicHelper(m, helper) ==
    IF ~staticHelpersEnabled THEN Ret(m, NoRes)
    ELSE IF helper.type = "literal" THEN targetHelper(m, helper.path)
    ELSE Ret(m, NoRes)

(***************************************************************************)
(* Template nodes.  Every node is a record of the same shape: `text` is    *)
(* the value of a StringLiteral, the chars of a TextNode, the original of  *)
(* a PathExpression and the tag of an ElementNode; `path` holds the callee *)
(* of a call (<<>> for a leaf); `hash` holds the named arguments of a call *)
(* or the attributes of an element as [key, value] pairs.                  *)
(***************************************************************************)
Node(type, text, path, params, hash, blockParams, modifiers) ==
    [type |-> type, text |-> text, path |-> path, params |-> params, hash |-> hash,
     blockParams |-> blockParams, modifiers |-> modifiers]

Leaf(type, text) == Node(type, text, <<>>, <<>>, <<>>, <<>>, <<>>)

StringLiteral(value) == Leaf("StringLiteral", value)
TextNode(chars) == Leaf("TextNode", chars)
NumberLiteral == Leaf("NumberLiteral", <<"1">>)
\* builders.path(original)
PathExpression(original) == Leaf("PathExpression", original)

Call(type, callee, params, hash) == Node(type, <<>>, <<callee>>, params, hash, <<>>, <<>>)

Pair(key, value) == [key |-> key, value |-> value]

\* builders.mustache(path)
MustacheOf(path) == Call("MustacheStatement", path, <<>>, <<>>)

\* PathExpression.parts: the dotted segments, without a leading `this` and
\* without the `@` of an argument path
pathParts(original) ==
    LET parts == split(original, ".")
    IN IF parts[1] = <<"this">> THEN Tail(parts)
       ELSE IF startsWith(parts[1], "@") THEN <<Tail(parts[1])>> \o Tail(parts)
       ELSE parts

\* PathExpression.this: the head is `this`
pathThis(original) == split(original, ".")[1] = <<"this">>

\* PathExpression.data: the head is an @-argument
pathData(original) == startsWith(original, "@")

\* parts[0], <<>> standing for `undefined`
rootNameOf(original) ==
    IF pathParts(original) = <<>> THEN <<>> ELSE pathParts(original)[1]

(***************************************************************************)
(* ScopeStack                                                              *)
(***************************************************************************)
\* the exit callback of a marker: which call form made it, and the open node
\* whose arguments it will look at
ExitOf(form, at, rootName) == [form |-> form, at |-> at, rootName |-> rootName]

NoExit == ExitOf("none", 0, <<>>)

BlockParamsEntry(blockParams) ==
    [type |-> "blockParams", blockParams |-> blockParams, resolution |-> NoRes,
     argumentsAreComponents |-> <<>>, exit |-> NoExit]

ComponentBlockMarker(resolution, exit) ==
    [type |-> "componentBlockMarker", blockParams |-> <<>>, resolution |-> resolution,
     argumentsAreComponents |-> resolution.argumentsAreComponents, exit |-> exit]

push(m, blockParams) ==
    [m EXCEPT !.scopeStack = <<BlockParamsEntry(blockParams)>> \o @]

enteringComponentBlock(m, resolution, exit) ==
    [m EXCEPT !.scopeStack = <<ComponentBlockMarker(resolution, exit)>> \o @]

\* inScope asking the innermost frame only
inScopeInnermost(m, name) ==
    /\ m.scopeStack # <<>>
    /\ m.scopeStack[1].type = "blockParams"
    /\ listIncludes(m.scopeStack[1].blockParams, name)

inScope(m, name) ==
    \E i \in 1..Len(m.scopeStack) :
        /\ m.scopeStack[i].type = "blockParams"
        /\ listIncludes(m.scopeStack[i].blockParams, name)

\* the search of safeComponentInScope looking at the head of the stack only
matchedPairAtHead(stack, root) ==
    IF /\ Len(stack) > 1
       /\ stack[1].type = "blockParams"
       /\ stack[2].type = "componentBlockMarker"
       /\ indexOf(stack[1].blockParams, root) # -1
    THEN 1 ELSE 0

\* the first adjacent (blockParams, marker) pair whose block params hold the
\* root segment: 0 when there is none
matchedPair(stack, root) ==
    LET hits == { i \in 1..(Len(stack) - 1) :
                    /\ stack[i].type = "blockParams"
                    /\ stack[i+1].type = "componentBlockMarker"
                    /\ indexOf(stack[i].blockParams, root) # -1 }
    IN IF hits = {} THEN 0 ELSE CHOOSE i \in hits : \A j \in hits : i <= j

\* safeComponentInScope deeming the reference safe without the push
pushSourceArgDropped(m, i, sourceArg) == m

\* next.argumentsAreComponents.push(sourceArg) on the marker at index i
pushSourceArg(m, i, sourceArg) ==
    [m EXCEPT !.scopeStack[i].argumentsAreComponents = Append(@, sourceArg)]

\* safeAt taking a `true` entry of yieldsComponents to cover every field
safeAtEveryField(m, parts, i, safeEntry, argsEntry) ==
    IF Len(parts) = 1
    THEN IF safeEntry.t = "true" THEN Ret(m, TRUE)
         ELSE IF argsEntry.t = "str" THEN Ret(pushSourceArg(m, i + 1, argsEntry.v), TRUE)
         ELSE Ret(m, FALSE)
    ELSE IF safeEntry.t = "true" THEN Ret(m, TRUE)
         ELSE IF safeEntry.t = "map"
         THEN Ret(m, YField(safeEntry, parts[2]) = <<S("true")>>)
         ELSE IF argsEntry.t = "map" /\ YField(argsEntry, parts[2]) # <<>>
         THEN Ret(pushSourceArg(m, i + 1, YField(argsEntry, parts[2])[1]), TRUE)
         ELSE Ret(m, FALSE)

\* the decision of safeComponentInScope at the matched pair (i, i+1), from the
\* entries of yieldsComponents and yieldsArguments at the root's position
safeAt(m, parts, i, safeEntry, argsEntry) ==
    IF Len(parts) = 1
    THEN IF safeEntry.t = "true" THEN Ret(m, TRUE)
         ELSE IF argsEntry.t = "str" THEN Ret(pushSourceArg(m, i + 1, argsEntry.v), TRUE)
         ELSE Ret(m, FALSE)
    ELSE IF safeEntry.t = "map"
         THEN Ret(m, YField(safeEntry, parts[2]) = <<S("true")>>)
         ELSE IF argsEntry.t = "map" /\ YField(argsEntry, parts[2]) # <<>>
         THEN Ret(pushSourceArg(m, i + 1, YField(argsEntry, parts[2])[1]), TRUE)
         ELSE Ret(m, FALSE)

safeComponentInScope(m, name) ==
    LET found(parts, i) ==
            IF Len(parts) > 2 THEN Ret(m, FALSE)
            ELSE IF i = 0 THEN Ret(m, FALSE)
            ELSE LET at(positionalIndex) ==
                         safeAt(m, parts, i,
                                YAt(m.scopeStack[i + 1].resolution.yieldsComponents,
                                    positionalIndex),
                                YAt(m.scopeStack[i + 1].resolution.yieldsArguments,
                                    positionalIndex))
                 IN at(indexOf(m.scopeStack[i].blockParams, parts[1]))
    IN found(split(name, "."), matchedPair(m.scopeStack, split(name, ".")[1]))

(***************************************************************************)
(* Reference Rewriter                                                      *)
(***************************************************************************)
\* jsutils.bindImport(specifier, 'default', target, {nameHint}): the local
\* identifier bound to the specifier, a new binding only when there is none
importsOf(m, specifier) == { i \in 1..Len(m.imports) : m.imports[i].specifier = specifier }

freshName(m, hint) ==
    LET taken == { m.imports[i].name : i \in 1..Len(m.imports) }
        k == CHOOSE n \in 0..Len(m.imports) :
                 /\ (IF n = 0 THEN hint ELSE hint \o <<ToString(n)>>) \notin taken
                 /\ \A j \in 0..(n-1) :
                        (IF j = 0 THEN hint ELSE hint \o <<ToString(j)>>) \in taken
    IN IF k = 0 THEN hint ELSE hint \o <<ToString(k)>>

bindImport(m, specifier, hint) ==
    IF importsOf(m, specifier) # {}
    THEN Ret(m, m.imports[CHOOSE i \in importsOf(m, specifier) : TRUE].name)
    ELSE LET bound(name) ==
                 Ret([m EXCEPT !.imports = Append(@, [specifier |-> specifier,
                                                      name |-> name])], name)
         IN bound(freshName(m, hint))

\* emit handing its setter the name hint, not the identifier bindImport gave
emitHintSubstituted(m, resolution) ==
    IF resolution.type = "error" THEN Ret(reportError(m, resolution), <<>>)
    ELSE IF resolution.type \in {"component", "modifier", "helper"}
    THEN LET used(b) ==
                 Ret([b.m EXCEPT !.uses = Append(@, <<resolution.specifier,
                                                      resolution.nameHint>>)],
                     <<resolution.nameHint>>)
         IN used(bindImport(m, resolution.specifier, resolution.nameHint))
    ELSE Ret(m, <<>>)

\* emit: reports an error resolution, binds any other; the value returned is
\* <<identifier>> when the caller's setter is to run and <<>> when it is not
emit(m, resolution) ==
    IF resolution.type = "error" THEN Ret(reportError(m, resolution), <<>>)
    ELSE IF resolution.type \in {"component", "modifier", "helper"}
    THEN LET used(b) ==
                 Ret([b.m EXCEPT !.uses = Append(@, <<resolution.specifier, b.r>>)], <<b.r>>)
         IN used(bindImport(m, resolution.specifier, resolution.nameHint))
    ELSE Ret(m, <<>>)

(***************************************************************************)
(* Dynamic-component resolution                                            *)
(***************************************************************************)
isPathNamed(node, name) == node.type = "PathExpression" /\ node.text = name

\* the ComponentLocator handleComponentHelper makes of a node; type "handled"
\* stands for the nodes it answers `null` for outright
locatorOf(param) ==
    CASE param.type = "StringLiteral" -> Locator("literal", param.text)
      [] param.type = "PathExpression" -> Locator("path", param.text)
      [] param.type = "MustacheStatement" ->
             IF isPathNamed(param.path[1], S("component")) THEN Locator("handled", <<>>)
             ELSE Locator("other", <<>>)
      [] param.type = "TextNode" -> Locator("literal", param.text)
      [] param.type = "SubExpression" ->
             IF isPathNamed(param.path[1], S("component")) THEN Locator("handled", <<>>)
             ELSE IF isPathNamed(param.path[1], S("ensure-safe-component"))
             THEN Locator("handled", <<>>)
             ELSE Locator("other", <<>>)
      [] OTHER -> Locator("other", <<>>)

\* locate without its question to the scope stack
locateUnproven(m, locator, impliedBecause) ==
    IF locator.type = "handled" THEN Ret(m, NoRes)
    ELSE targetComponentHelper(m, locator, impliedBecause)

\* the end of handleComponentHelper: a path proven safe needs no resolution
locate(m, locator, impliedBecause) ==
    IF locator.type = "handled" THEN Ret(m, NoRes)
    ELSE IF locator.type = "path"
    THEN LET proven(safe) ==
                 IF safe.r THEN Ret(safe.m, NoRes)
                 ELSE targetComponentHelper(safe.m, locator, impliedBecause)
         IN proven(safeComponentInScope(m, locator.path))
    ELSE targetComponentHelper(m, locator, impliedBecause)

RECURSIVE handleComponentHelper(_, _, _)
handleComponentHelper(m, param, impliedBecause) ==
    IF param.type = "MustacheStatement" /\ param.hash = <<>> /\ param.params = <<>>
    THEN handleComponentHelper(m, param.path[1], impliedBecause)
    ELSE locate(m, locatorOf(param), impliedBecause)

\* findAttr looking for the bare name among an element's attributes too
findAttrPlainKey(node, name) ==
    LET hits == { i \in 1..Len(node.hash) : node.hash[i].key = name }
    IN IF hits = {} THEN 0 ELSE CHOOSE i \in hits : \A j \in hits : i <= j

\* attributes.find(...): the index of the first attribute or hash pair that
\* carries the named argument, 0 when there is none
findAttr(node, name) ==
    LET key == IF node.type = "ElementNode" THEN <<"@">> \o name ELSE name
        hits == { i \in 1..Len(node.hash) : node.hash[i].key = key }
    IN IF hits = {} THEN 0 ELSE CHOOSE i \in hits : \A j \in hits : i <= j

\* one turn of the loop of handleDynamicComponentArguments: the argument
\* called `name`, when the call has it, is resolved and rewritten
handleDynamicComponentArgument(m, componentName, name, node) ==
    LET set(i, e) ==
            IF e.r = <<>> THEN Ret(e.m, node)
            ELSE Ret(e.m, [node EXCEPT !.hash[i].value =
                                 IF node.type = "ElementNode"
                                 THEN MustacheOf(PathExpression(e.r[1]))
                                 ELSE PathExpression(e.r[1])])
        emitted(i, resolution) == set(i, emit(resolution.m, resolution.r))
        found(i) ==
            IF i = 0 THEN Ret(m, node)
            ELSE emitted(i, handleComponentHelper(m, node.hash[i].value,
                     <<[componentName |-> componentName, argumentName |-> name]>>))
    IN found(findAttr(node, name))

RECURSIVE handleDynamicComponentArgumentsFrom(_, _, _, _, _)
\* the loop of handleDynamicComponentArguments from its k-th name on; the
\* value returned is the call node with its argument values rewritten
handleDynamicComponentArgumentsFrom(m, componentName, argumentsAreComponents, node, k) ==
    IF k > Len(argumentsAreComponents) \/ m.thrown # <<>> THEN Ret(m, node)
    ELSE LET rest(turn) ==
                 handleDynamicComponentArgumentsFrom(turn.m, componentName,
                                                     argumentsAreComponents, turn.r, k + 1)
         IN rest(handleDynamicComponentArgument(m, componentName,
                                                argumentsAreComponents[k], node))

handleDynamicComponentArguments(m, componentName, argumentsAreComponents, node) ==
    handleDynamicComponentArgumentsFrom(m, componentName, argumentsAreComponents, node, 1)

\* handleDynamicModifier handing on what is not a string literal too
handleDynamicModifierOfAnything(m, param) ==
    IF param.type = "StringLiteral"
    THEN targetDynamicModifier(m, Locator("literal", param.text))
    ELSE targetDynamicModifier(m, Locator("other", <<>>))

handleDynamicModifier(m, param) ==
    IF param.type = "StringLiteral"
    THEN targetDynamicModifier(m, Locator("literal", param.text))
    ELSE Ret(m, NoRes)

handleDynamicHelper(m, param) ==
    IF param.type = "StringLiteral"
    THEN targetDynamicHelper(m, Locator("literal", param.text))
    ELSE Ret(m, NoRes)

(***************************************************************************)
(* The visitor.  Each handler is an operator from the machine and the node *)
(* it is called on to the machine and the node after it, with the          *)
(* resolution it came to and the name that resolution was tried for.       *)
(***************************************************************************)
Done(m, node, res, target) == [m |-> m, node |-> node, res |-> res, target |-> target]

Skip(m, node) == Done(m, node, NoRes, <<>>)

\* emit with a setter that replaces params[0]
emitParam(m, node, resolution, target) ==
    LET set(e) ==
            Done(e.m,
                 IF e.r = <<>> THEN node
                 ELSE [node EXCEPT !.params[1] = PathExpression(e.r[1])],
                 resolution, target)
    IN set(emit(m, resolution))

\* emit with a setter that replaces the callee path
emitPath(m, node, resolution, target) ==
    LET set(e) ==
            Done(e.m,
                 IF e.r = <<>> THEN node
                 ELSE [node EXCEPT !.path[1] = PathExpression(e.r[1])],
                 resolution, target)
    IN set(emit(m, resolution))

\* the name a dynamic-component argument stands for, when it is a literal
literalOf(param) ==
    IF param.type \in {"StringLiteral", "TextNode"} THEN param.text ELSE <<>>

\* a resolution handed to emit with the params[0] setter
resolvedParam(resolution, node) ==
    emitParam(resolution.m, node, resolution.r, literalOf(node.params[1]))

\* a resolution handed to emit with the path setter
resolvedPath(resolution, node) ==
    emitPath(resolution.m, node, resolution.r, node.path[1].text)

\* the end of visitor.BlockStatement: a component's block gets its marker
blockEntered(d, at, rootName) ==
    IF d.res.type = "component"
    THEN [d EXCEPT !.m = enteringComponentBlock(d.m, d.res, ExitOf("block", at, rootName))]
    ELSE d

\* visitor.BlockStatement; `at` is the place the node takes among the open nodes
BlockStatement(m, node, at) ==
    LET path == node.path[1]
    IN IF path.type # "PathExpression" THEN Skip(m, node)
       ELSE IF inScope(m, rootNameOf(path.text)) THEN Skip(m, node)
       ELSE IF pathThis(path.text) THEN Skip(m, node)
       ELSE IF Len(pathParts(path.text)) > 1 THEN Skip(m, node)
       ELSE IF path.text = S("component") /\ Len(node.params) > 0
       THEN resolvedParam(handleComponentHelper(m, node.params[1], <<>>), node)
       ELSE blockEntered(resolvedPath(targetComponent(m, path.text), node),
                         at, rootNameOf(path.text))

\* visitor.SubExpression
SubExpression(m, node) ==
    LET path == node.path[1]
    IN IF path.type # "PathExpression" THEN Skip(m, node)
       ELSE IF pathThis(path.text) THEN Skip(m, node)
       ELSE IF inScope(m, rootNameOf(path.text)) THEN Skip(m, node)
       ELSE IF path.text = S("component") /\ Len(node.params) > 0
       THEN resolvedParam(handleComponentHelper(m, node.params[1], <<>>), node)
       ELSE IF path.text = S("helper") /\ Len(node.params) > 0
       THEN resolvedParam(handleDynamicHelper(m, node.params[1]), node)
       ELSE IF path.text = S("modifier") /\ Len(node.params) > 0
       THEN resolvedParam(handleDynamicModifier(m, node.params[1]), node)
       ELSE resolvedPath(targetHelper(m, path.text), node)

\* the end of visitor.MustacheStatement.enter: the arguments of a call that
\* resolved to a component are examined, under the name the callee has by then
mustacheArguments(d) ==
    LET done(a) == [d EXCEPT !.m = a.m, !.node = a.r]
    IN IF d.res.type = "component" /\ d.m.thrown = <<>>
       THEN done(handleDynamicComponentArguments(d.m, d.node.path[1].text,
                                                 d.res.argumentsAreComponents, d.node))
       ELSE d

\* targetHelperOrComponent's result handed to emit, unless it threw
resolvedAmbiguous(resolution, node) ==
    IF resolution.m.thrown # <<>>
    THEN Done(resolution.m, node, resolution.r, node.path[1].text)
    ELSE resolvedPath(resolution, node)

\* visitor.MustacheStatement.enter; parentIsAttr is
\* path.parent?.node.type === 'AttrNode'
MustacheStatement(m, node, parentIsAttr) ==
    LET path == node.path[1]
    IN IF path.type # "PathExpression" THEN Skip(m, node)
       ELSE IF inScope(m, rootNameOf(path.text)) THEN Skip(m, node)
       ELSE IF pathThis(path.text) THEN Skip(m, node)
       ELSE IF Len(pathParts(path.text)) > 1 THEN Skip(m, node)
       ELSE IF startsWith(path.text, "@") THEN Skip(m, node)
       ELSE IF path.text = S("component") /\ Len(node.params) > 0
       THEN resolvedParam(handleComponentHelper(m, node.params[1], <<>>), node)
       ELSE IF path.text = S("helper") /\ Len(node.params) > 0
       THEN resolvedParam(handleDynamicHelper(m, node.params[1]), node)
       ELSE IF parentIsAttr
       THEN resolvedPath(targetHelper(m, path.text), node)
       ELSE mustacheArguments(resolvedAmbiguous(
                targetHelperOrComponent(m, path.text,
                    Len(node.params) > 0 \/ Len(node.hash) > 0), node))

\* visitor.ElementModifierStatement
ElementModifierStatement(m, node) ==
    LET path == node.path[1]
    IN IF path.type # "PathExpression" THEN Skip(m, node)
       ELSE IF inScope(m, rootNameOf(path.text)) THEN Skip(m, node)
       ELSE IF pathThis(path.text) THEN Skip(m, node)
       ELSE IF pathData(path.text) THEN Skip(m, node)
       ELSE IF Len(pathParts(path.text)) > 1 THEN Skip(m, node)
       ELSE resolvedPath(targetElementModifier(m, path.text), node)

\* dasherize of dasherize-component-name, on the tags of the model
dasherize(tag) ==
    CASE tag = S("HelloWorld") -> S("hello-world")
      [] tag = S("ThisOne") -> S("this-one")
      [] tag = S("Input") -> S("input")
      [] tag = S("LinkTo") -> S("link-to")
      [] tag = S("FirstTarget") -> S("first-target")
      [] OTHER -> tag

\* the tokens whose first character is an upper-case letter
UpperCaseFirst == {"HelloWorld", "ThisOne", "Input", "LinkTo", "FirstTarget", "H"}

\* node.tag[0] !== node.tag[0].toLowerCase()
startsUpperCase(tag) == tag[1] \in UpperCaseFirst

\* the tag resolved and handed to emit, whose setter replaces the tag
resolvedTag(resolution, node, target) ==
    LET set(e) ==
            Done(e.m, IF e.r = <<>> THEN node ELSE [node EXCEPT !.text = e.r[1]],
                 resolution.r, target)
    IN set(emit(resolution.m, resolution.r))

\* a component's element gets its marker
elementEntered(d, at, rootName) ==
    IF d.res.type = "component"
    THEN [d EXCEPT !.m = enteringComponentBlock(d.m, d.res,
                                                ExitOf("element", at, rootName))]
    ELSE d

\* the block params of an element come into scope as its enter handler ends
elementPushed(d) ==
    IF d.m.thrown # <<>> THEN d ELSE [d EXCEPT !.m = push(d.m, d.node.blockParams)]

\* visitor.ElementNode.enter without its test of the tag's first character
ElementNodeEnterAnyCase(m, node, at) ==
    LET rootName == split(node.text, ".")[1]
    IN IF inScope(m, rootName) THEN elementPushed(Skip(m, node))
       ELSE elementPushed(elementEntered(
                resolvedTag(targetComponent(m, dasherize(node.text)), node,
                            dasherize(node.text)),
                at, rootName))

\* visitor.ElementNode.enter
ElementNodeEnter(m, node, at) ==
    LET rootName == split(node.text, ".")[1]
    IN IF inScope(m, rootName) THEN elementPushed(Skip(m, node))
       ELSE IF startsUpperCase(node.text)
       THEN elementPushed(elementEntered(
                resolvedTag(targetComponent(m, dasherize(node.text)), node,
                            dasherize(node.text)),
                at, rootName))
       ELSE elementPushed(Skip(m, node))

\* the exit callback handed to enteringComponentBlock, run on the marker
exitMarker(m, marker) ==
    LET node == m.open[marker.exit.at].node
        written(a) == [a.m EXCEPT !.open[marker.exit.at].node = a.r,
                                  !.fired = Append(@, marker)]
    IN written(handleDynamicComponentArguments(
                   m,
                   IF marker.exit.form = "element" THEN node.text
                   ELSE marker.exit.rootName,
                   marker.argumentsAreComponents, node))

\* ScopeStack.pop
pop(m) ==
    LET shifted(m1) == IF m1.thrown # <<>> THEN m1
                       ELSE [m1 EXCEPT !.scopeStack = Tail(@)]
    IN IF Len(m.scopeStack) > 1 /\ m.scopeStack[2].type = "componentBlockMarker"
       THEN shifted(exitMarker([m EXCEPT !.scopeStack = Tail(@)], m.scopeStack[2]))
       ELSE [m EXCEPT !.scopeStack = Tail(@)]

\* visitor.Program.enter pushing the locals under the block params
ProgramEnterHandlerLocalsFirst(m, node) ==
    IF locals.defined THEN push(push(m, locals.names), node.blockParams)
    ELSE push(m, node.blockParams)

\* visitor.Program.enter
ProgramEnterHandler(m, node) ==
    LET m1 == push(m, node.blockParams)
    IN IF locals.defined THEN push(m1, locals.names) ELSE m1

\* visitor.Program.exit popping once, locals or not
ProgramExitHandlerOnce(m) == pop(m)

\* visitor.Program.exit
ProgramExitHandler(m) ==
    LET second(m1) == IF m1.thrown # <<>> THEN m1
                      ELSE IF locals.defined THEN pop(m1) ELSE m1
    IN second(pop(m))

\* visitor.ElementNode.exit
ElementNodeExitHandler(m) == pop(m)

(***************************************************************************)
(* The traversal.  `open` holds a frame for every node the walk is inside  *)
(* of: the node as rewritten so far, the child slots still to visit, the   *)
(* slot of its parent the node sits in, and the node as the template had   *)
(* it.                                                                     *)
(***************************************************************************)
Frame(node, pending, slot) ==
    [node |-> node, pending |-> pending, slot |-> slot, source |-> node]

Slot(key, i) == [key |-> key, i |-> i]

ChildSlot == Slot("child", 0)

\* the node types the visitor has a handler for among argument values
Visitable == {"MustacheStatement", "SubExpression", "ElementModifierStatement"}

SlotsOf(key, list) ==
    LET pick(i) == IF (IF key = "hash" THEN list[i].value ELSE list[i]).type \in Visitable
                   THEN <<Slot(key, i)>> ELSE <<>>
        RECURSIVE from(_)
        from(i) == IF i > Len(list) THEN <<>> ELSE pick(i) \o from(i + 1)
    IN from(1)

\* the children glimmer's traverse visits after a node's enter handler, in
\* visitor-key order (attributes, modifiers / path, params, hash)
PendingOf(node) ==
    IF node.type = "ElementNode"
    THEN SlotsOf("hash", node.hash) \o SlotsOf("modifiers", node.modifiers)
    ELSE SlotsOf("path", node.path) \o SlotsOf("params", node.params)
         \o SlotsOf("hash", node.hash)

GetSlot(node, slot) ==
    CASE slot.key = "hash" -> node.hash[slot.i].value
      [] slot.key = "params" -> node.params[slot.i]
      [] slot.key = "path" -> node.path[slot.i]
      [] slot.key = "modifiers" -> node.modifiers[slot.i]

SetSlot(node, slot, child) ==
    CASE slot.key = "hash" -> [node EXCEPT !.hash[slot.i].value = child]
      [] slot.key = "params" -> [node EXCEPT !.params[slot.i] = child]
      [] slot.key = "path" -> [node EXCEPT !.path[slot.i] = child]
      [] slot.key = "modifiers" -> [node EXCEPT !.modifiers[slot.i] = child]
      [] OTHER -> node

\* nodes without an exit handler are left as soon as their children are done
LeafCalls == {"MustacheStatement", "SubExpression", "ElementModifierStatement"}

RECURSIVE Settle(_)
Settle(frames) ==
    IF frames = <<>> THEN frames
    ELSE LET top == frames[Len(frames)]
             rest == SubSeq(frames, 1, Len(frames) - 1)
         IN IF top.node.type \in LeafCalls /\ top.pending = <<>>
            THEN IF rest = <<>> THEN rest
                 ELSE Settle([rest EXCEPT ![Len(rest)].node = SetSlot(@, top.slot, top.node)])
            ELSE frames

Top == open[Len(open)]

BodyTypes == {"Template", "ElementNode", "Block"}

\* ElementNode and Block nodes the walk is inside of
Depth == Cardinality({ i \in 1..Len(open) : open[i].node.type \in {"ElementNode", "Block"} })

(***************************************************************************)
(* The nodes a template of the model may hold.  Two vocabularies: "forms"  *)
(* has every call form over plain, ignored, disambiguated, built-in and    *)
(* contextual names; "sites" has the call sites of one component with      *)
(* component arguments.                                                    *)
(***************************************************************************)
Args(params, hash) == [params |-> params, hash |-> hash]

NoArgs == Args(<<>>, <<>>)

Mustache(callee, args) ==
    Call("MustacheStatement", PathExpression(callee), args.params, args.hash)

Sub(callee, args) ==
    Call("SubExpression", PathExpression(callee), args.params, args.hash)

Modifier(callee) == Call("ElementModifierStatement", PathExpression(callee), <<>>, <<>>)

Block(callee, args, blockParams) ==
    Node("BlockStatement", <<>>, <<PathExpression(callee)>>, args.params, args.hash,
         blockParams, <<>>)

Element(tag, attributes, modifiers, blockParams) ==
    Node("ElementNode", tag, <<>>, <<>>, attributes, blockParams, modifiers)

Keywords == { S("component"), S("helper"), S("modifier") }

Contextual == { <<"@", "arg">>, <<"this", ".", "foo">>, <<"h", ".", "title">> }

\* names resolved globally: plain, with a slash, ignored by a rule,
\* disambiguated by the file's rule, built-in
GlobalNames ==
    { S("hello-world"), <<"something", "/", "hello-world">>, S("this-one"),
      S("as-component"), S("as-helper"), S("as-data"), S("if") }

\* what the component, helper and modifier keywords are handed
KeywordParams ==
    { StringLiteral(S("hello-world")), StringLiteral(S("input")),
      StringLiteral(S("this-one")), PathExpression(<<"this", ".", "foo">>) }

SomeHash == <<Pair(S("other"), NumberLiteral)>>

FormSubs ==
    { Sub(c, NoArgs) : c \in { S("hello-world"), S("this-one"), S("if"), <<"@", "arg">> } }
    \cup { Sub(c, Args(<<p>>, <<>>)) : <<c, p>> \in Keywords \X KeywordParams }

FormMustaches ==
    { Mustache(c, a) : <<c, a>> \in (GlobalNames \cup Keywords)
                                    \X { NoArgs, Args(<<>>, SomeHash) } }
    \cup { Mustache(c, NoArgs) : c \in Contextual }
    \cup { Mustache(c, Args(<<p>>, <<>>)) :
             <<c, p>> \in { S("component"), S("helper") } \X KeywordParams }
    \cup { Mustache(S("if"), Args(<<sub>>, <<>>)) : sub \in FormSubs }
    \cup { Call("MustacheStatement", NumberLiteral, <<>>, <<>>) }

FormBlocks ==
    { Block(c, NoArgs, <<>>) :
        c \in { S("hello-world"), S("this-one"), S("if"), S("component"),
                <<"this", ".", "foo">>, <<"h", ".", "title">> } }
    \cup { Block(S("component"), Args(<<p>>, <<>>), <<>>) : p \in KeywordParams }

FormElements ==
    { Element(tag, <<>>, <<>>, <<>>) :
        tag \in { S("HelloWorld"), S("ThisOne"), S("Input"), S("div"), <<"@", "arg">> } }
    \cup { Element(S("div"), <<Pair(S("class"), MustacheOf(PathExpression(c)))>>, <<>>, <<>>) :
             c \in { S("hello-world"), S("this-one"), S("if"), S("helper") } }
    \cup { Element(S("div"), <<>>, <<Modifier(c)>>, <<>>) :
             c \in { S("hello-world"), S("this-one"), S("on") } \cup Contextual }

\* values a component argument is given at a call site
SiteValues == { S("first-target"), S("second-target"), S("input"), S("this-one") }

\* what a call of ensure-safe-component is handed
SafeArgs == Args(<<PathExpression(<<"this", ".", "foo">>)>>, <<>>)

SiteHashes ==
    { <<Pair(S("iAmAComponent"), StringLiteral(v))>> : v \in SiteValues }
    \cup { <<Pair(S("other"), StringLiteral(S("first-target")))>>,
           <<Pair(S("iAmAComponent"),
                  Sub(S("component"), Args(<<StringLiteral(S("first-target"))>>, <<>>)))>> }

SiteAttributes ==
    { <<Pair(<<"@", "iAmAComponent">>, TextNode(v))>> : v \in SiteValues }
    \cup { <<Pair(<<"@", "other">>, TextNode(S("first-target")))>> }

SiteMustaches ==
    { Mustache(c, Args(<<>>, h)) :
        <<c, h>> \in { S("hello-world"), S("as-component") } \X SiteHashes }

SiteBlocks == { Block(S("hello-world"), Args(<<>>, h), <<>>) : h \in SiteHashes }

SiteElements ==
    { Element(tag, a, <<>>, <<>>) : <<tag, a>> \in { S("HelloWorld") } \X SiteAttributes }
    \cup { Element(S("FirstTarget"), <<>>, <<Modifier(S("on"))>>, <<>>) }

\* call sites that resolve and call sites that report, for a walk under an
\* audit collector
AuditMustaches ==
    { Mustache(S("hello-world"), Args(<<>>, <<Pair(S("iAmAComponent"), v)>>)) :
        v \in { StringLiteral(S("first-target")), PathExpression(<<"this", ".", "foo">>) } }

AuditNested ==
    { Block(S("hello-world"),
            Args(<<>>, <<Pair(S("iAmAComponent"), Sub(S("ensure-safe-component"), SafeArgs))>>),
            <<>>),
      Element(S("HelloWorld"),
              <<Pair(<<"@", "iAmAComponent">>, Mustache(S("ensure-safe-component"), SafeArgs))>>,
              <<Modifier(S("on"))>>, <<>>) }

\* calls under block params: dynamic components given a path, and callees
\* that are a block param
ScopeMustaches ==
    { Mustache(S("component"), Args(<<PathExpression(p)>>, <<>>)) :
        p \in { S("h"), <<"h", ".", "title">>, <<"this", ".", "safe">>,
                <<"this", ".", "foo">> } }
    \cup { Mustache(S("h"), Args(<<Sub(S("h"), NoArgs)>>, <<>>)) }
    \cup { Mustache(c, NoArgs) : c \in Contextual }

\* blocks that bind `h`: a component's, with a marker, and a keyword's, without
ScopeNested ==
    { Block(S("hello-world"),
            Args(<<>>, <<Pair(S("other"),
                              Sub(S("component"),
                                  Args(<<StringLiteral(S("first-target"))>>, <<>>)))>>),
            <<S("h")>>),
      Block(S("let"), Args(<<PathExpression(<<"this", ".", "foo">>)>>, <<>>), <<S("h")>>),
      Block(S("h"), NoArgs, <<>>),
      Element(S("HelloWorld"), <<>>, <<Modifier(S("h"))>>, <<S("h")>>) }

\* references to what a component's block yields, by one and by two segments
\* and deeper, and a call that is handed a yielded value as a component
YieldMustaches ==
    { Mustache(S("component"), Args(<<PathExpression(p)>>, <<>>)) :
        p \in { <<"h", ".", "title">>, <<"h", ".", "body">>, <<"g", ".", "body">>,
                <<"g", ".", "title">>, <<"g", ".", "title", ".", "x">>, S("f") } }
    \cup { Mustache(S("hello-world"), Args(<<>>, <<Pair(S("iAmAComponent"), v)>>)) :
             v \in { PathExpression(S("f")),
                     Sub(S("component"), Args(<<PathExpression(S("f"))>>, <<>>)) } }

\* calls of a component with a body: two that bind what the component
\* yields and are handed the argument it forwards, one handed a yielded value
YieldNested ==
    { Block(S("hello-world"),
            Args(<<>>, <<Pair(S("forwarded"), StringLiteral(S("first-target")))>>),
            <<S("h"), S("g"), S("f")>>),
      Element(S("HelloWorld"),
              <<Pair(<<"@", "forwarded">>, TextNode(S("first-target")))>>,
              <<Modifier(S("on"))>>, <<S("h"), S("g"), S("f")>>),
      Block(S("hello-world"),
            Args(<<>>, <<Pair(S("iAmAComponent"), PathExpression(S("f")))>>), <<>>) }

\* the template's children the walk may meet next
ChildNodes ==
    IF limits.vocab = "forms"
    THEN FormMustaches
         \cup (IF Depth < limits.depth THEN FormBlocks \cup FormElements ELSE {})
    ELSE IF limits.vocab = "sites"
    THEN SiteMustaches
         \cup (IF Depth < limits.depth THEN SiteBlocks \cup SiteElements ELSE {})
    ELSE IF limits.vocab = "audit"
    THEN AuditMustaches \cup (IF Depth < limits.depth THEN AuditNested ELSE {})
    ELSE IF limits.vocab = "yields"
    THEN YieldMustaches \cup (IF Depth < limits.depth THEN YieldNested ELSE {})
    ELSE ScopeMustaches \cup (IF Depth < limits.depth THEN ScopeNested ELSE {})

\* the nodes traverse may call a handler on next, each with the slot it is in
Candidates ==
    IF phase # "walk" \/ thrown # <<>> \/ open = <<>> THEN {}
    ELSE IF Top.pending # <<>>
    THEN { [node |-> GetSlot(Top.node, Head(Top.pending)), slot |-> Head(Top.pending)] }
    ELSE IF Top.node.type \in BodyTypes /\ visited < limits.nodes
    THEN { [node |-> n, slot |-> ChildSlot] : n \in ChildNodes }
    ELSE {}

(***************************************************************************)
(* Actions: one per visitor handler                                        *)
(***************************************************************************)
NoNode == Leaf("none", <<>>)

\* `bound` is scopeStack.inScope of the callee's root segment as the handler
\* found it; `source` is the node as the template had it, which an exit
\* handler finds with its children rewritten
Event(handler, before, d, inAttr) ==
    [handler |-> handler, before |-> before, after |-> d.node, res |-> d.res,
     target |-> d.target, errs |-> d.m.errs, fired |-> d.m.fired, inAttr |-> inAttr,
     source |-> IF handler = "ElementNode.exit" THEN Top.source
                ELSE IF handler = "Program.exit" /\ Top.node.type # "Template"
                THEN open[Len(open) - 1].source
                ELSE before,
     bound |-> IF before.type = "ElementNode"
               THEN inScope(Machine, split(before.text, ".")[1])
               ELSE IF before.path # <<>> /\ before.path[1].type = "PathExpression"
               THEN inScope(Machine, rootNameOf(before.path[1].text))
               ELSE FALSE]

Commit(m) ==
    /\ scopeStack' = m.scopeStack
    /\ open' = m.open
    /\ imports' = m.imports
    /\ uses' = m.uses
    /\ audit' = m.audit
    /\ thrown' = m.thrown
    /\ dropped' = m.dropped
    /\ reported' = m.reported
    /\ rulesBuilt' = m.rulesBuilt

\* the open nodes once the handler of candidate c has run and left `node`
Entered(m, c, node) ==
    IF m.thrown # <<>> THEN m
    ELSE LET base == IF c.slot.key = "child" THEN m.open
                     ELSE [m.open EXCEPT ![Len(m.open)].pending = Tail(@)]
             frame == [Frame(node, PendingOf(node), c.slot) EXCEPT !.source = c.node]
         IN [m EXCEPT !.open = Settle(Append(base, frame))]

Visit(c, d, handler, inAttr) ==
    /\ Commit(Entered(d.m, c, d.node))
    /\ last' = Event(handler, c.node, d, inAttr)
    /\ visited' = IF c.slot.key = "child" THEN visited + 1 ELSE visited
    /\ UNCHANGED <<options, auditHandler, locals, rulesCfg, limits, phase>>

ProgramEnter ==
    /\ thrown = <<>>
    /\ \/ /\ phase = "start"
          /\ LET node == Leaf("Template", <<>>)
             IN Commit([ProgramEnterHandler(Machine, node)
                          EXCEPT !.open = <<Frame(node, <<>>, ChildSlot)>>])
          /\ phase' = "walk"
       \/ /\ phase = "walk" /\ open # <<>>
          /\ Top.node.type = "BlockStatement" /\ Top.pending = <<>>
          /\ LET node == [Leaf("Block", <<>>) EXCEPT !.blockParams = Top.node.blockParams]
             IN Commit([ProgramEnterHandler(Machine, node)
                          EXCEPT !.open = Append(@, Frame(node, <<>>, ChildSlot))])
          /\ phase' = phase
    /\ last' = Event("Program.enter", NoNode, Done(Machine, NoNode, NoRes, <<>>), FALSE)
    /\ UNCHANGED <<options, auditHandler, locals, rulesCfg, limits, visited>>

\* a Block is left together with the BlockStatement it is the program of
Exited(m) ==
    IF m.thrown # <<>> THEN m
    ELSE IF Top.node.type = "Template" THEN [m EXCEPT !.open = <<>>]
    ELSE [m EXCEPT !.open = SubSeq(@, 1, Len(@) - 2)]

\* the call whose program was left, as the exit left it
ExitedNode(m) ==
    IF Top.node.type = "Template" THEN Top.node ELSE m.open[Len(open) - 1].node

ProgramExited(m) ==
    /\ Commit(Exited(m))
    /\ phase' = IF m.thrown = <<>> /\ Top.node.type = "Template" THEN "done" ELSE phase
    /\ last' = Event("Program.exit", ExitedNode(Machine), Done(m, ExitedNode(m), NoRes, <<>>),
                     FALSE)

ProgramExit ==
    /\ thrown = <<>> /\ phase = "walk" /\ open # <<>>
    /\ Top.node.type \in {"Template", "Block"} /\ Top.pending = <<>>
    /\ ProgramExited(ProgramExitHandler(Machine))
    /\ UNCHANGED <<options, auditHandler, locals, rulesCfg, limits, visited>>

BlockStatementVisit ==
    \E c \in Candidates :
        /\ c.node.type = "BlockStatement"
        /\ Visit(c, BlockStatement(Machine, c.node, Len(open) + 1), "BlockStatement", FALSE)

SubExpressionVisit ==
    \E c \in Candidates :
        /\ c.node.type = "SubExpression"
        /\ Visit(c, SubExpression(Machine, c.node), "SubExpression", FALSE)

MustacheStatementEnter ==
    \E c \in Candidates :
        /\ c.node.type = "MustacheStatement"
        /\ LET parentIsAttr == c.slot.key = "hash" /\ Top.node.type = "ElementNode"
           IN Visit(c, MustacheStatement(Machine, c.node, parentIsAttr),
                    "MustacheStatement", parentIsAttr)

ElementModifierStatementVisit ==
    \E c \in Candidates :
        /\ c.node.type = "ElementModifierStatement"
        /\ Visit(c, ElementModifierStatement(Machine, c.node),
                 "ElementModifierStatement", FALSE)

ElementEnter ==
    \E c \in Candidates :
        /\ c.node.type = "ElementNode"
        /\ Visit(c, ElementNodeEnter(Machine, c.node, Len(open) + 1), "ElementNode", FALSE)

ElementExited(m) ==
    /\ Commit(IF m.thrown # <<>> THEN m ELSE [m EXCEPT !.open = SubSeq(@, 1, Len(@) - 1)])
    /\ last' = Event("ElementNode.exit", Top.node,
                     Done(m, m.open[Len(open)].node, NoRes, <<>>), FALSE)

ElementExit ==
    /\ thrown = <<>> /\ phase = "walk" /\ open # <<>>
    /\ Top.node.type = "ElementNode" /\ Top.pending = <<>>
    /\ ElementExited(ElementNodeExitHandler(Machine))
    /\ UNCHANGED <<options, auditHandler, locals, rulesCfg, limits, phase, visited>>

(***************************************************************************)
(* Specifications                                                          *)
(***************************************************************************)
NoLocals == [defined |-> FALSE, names |-> <<>>]

LocalsChoices == { NoLocals, [defined |-> TRUE, names |-> <<S("HelloWorld")>>] }

Constructed ==
    /\ scopeStack = <<>>
    /\ open = <<>>
    /\ imports = <<>>
    /\ uses = <<>>
    /\ audit = <<>>
    /\ thrown = <<>>
    /\ dropped = 0
    /\ reported = <<>>
    /\ rulesBuilt = FALSE
    /\ phase = "start"
    /\ visited = 0
    /\ last = Event("none", NoNode, Done(Machine, NoNode, NoRes, <<>>), FALSE)

\* every configuration, over templates of a few nodes
Init ==
    /\ options \in OptionsChoices
    /\ auditHandler \in BOOLEAN
    /\ locals = NoLocals
    /\ rulesCfg \in RulesChoices
    /\ limits = [nodes |-> MaxNodes, depth |-> MaxDepth, vocab |-> "forms"]
    /\ Constructed

\* the call sites of a component with component arguments
InitSites ==
    /\ options \in { o \in OptionsChoices : o.staticComponents /\ ~o.staticModifiers }
    /\ auditHandler \in BOOLEAN
    /\ locals = NoLocals
    /\ rulesCfg = <<PackageRule>>
    /\ limits = [nodes |-> MaxSites, depth |-> MaxSiteDepth, vocab |-> "sites"]
    /\ Constructed

\* a walk under an audit collector
InitAudit ==
    /\ options \in { o \in OptionsChoices : o.staticComponents /\ ~o.staticModifiers }
    /\ auditHandler = TRUE
    /\ locals = NoLocals
    /\ rulesCfg = <<PackageRule>>
    /\ limits = [nodes |-> MaxAuditNodes, depth |-> MaxAuditDepth, vocab |-> "audit"]
    /\ Constructed

\* templates with block params and caller-supplied locals
InitScopes ==
    /\ options \in { o \in OptionsChoices : /\ o.staticComponents /\ o.staticHelpers
                                            /\ o.staticModifiers }
    /\ auditHandler \in BOOLEAN
    /\ locals \in LocalsChoices
    /\ rulesCfg \in { <<PackageRule>>, <<BrokenRule>> }
    /\ options.allowUnsafeDynamicComponents => Malformed
    /\ limits = [nodes |-> MaxScopeNodes, depth |-> MaxScopeDepth, vocab |-> "scopes"]
    /\ Constructed

\* templates whose references are proven through what a component yields
InitYields ==
    /\ options \in { o \in OptionsChoices : /\ o.staticComponents /\ o.staticHelpers
                                            /\ o.staticModifiers
                                            /\ ~o.allowUnsafeDynamicComponents }
    /\ auditHandler \in BOOLEAN
    /\ locals = NoLocals
    /\ rulesCfg = <<PackageRule>>
    /\ limits = [nodes |-> MaxYieldNodes, depth |-> MaxYieldDepth, vocab |-> "yields"]
    /\ Constructed

Next ==
    \/ ProgramEnter
    \/ ProgramExit
    \/ BlockStatementVisit
    \/ SubExpressionVisit
    \/ MustacheStatementEnter
    \/ ElementModifierStatementVisit
    \/ ElementEnter
    \/ ElementExit

Spec == Init /\ [][Next]_vars

SpecSites == InitSites /\ [][Next]_vars

SpecScopes == InitScopes /\ [][Next]_vars

SpecYields == InitYields /\ [][Next]_vars

\* traverse has returned or a handler has thrown: no handler is called again
Halted == phase = "done" \/ thrown # <<>>

\* traverse goes on calling handlers until the template is left or a handler
\* throws: WF_vars(Next) written out, Next being enabled exactly when the
\* walk has not halted
SpecAudit == InitAudit /\ [][Next]_vars /\ ([]<>Halted \/ []<><<Next>>_vars)

(***************************************************************************)
(* Properties.  `last` is the record of the handler that ran last: the     *)
(* node it was called on, the node it left, the resolution it came to and  *)
(* the errors it reported.                                                 *)
(***************************************************************************)
\* the callee of the call the last handler ran on
Callee == last.before.path[1]

HasArgs == Len(last.before.params) > 0 \/ Len(last.before.hash) > 0

\* a curly call that is not the value of an attribute
TopLevelCurly == last.handler = "MustacheStatement" /\ ~last.inAttr

\* a single-segment name that is not in scope, not this-relative and not an
\* @-argument
BareName(path) ==
    /\ path.type = "PathExpression"
    /\ ~pathThis(path.text)
    /\ Len(pathParts(path.text)) = 1
    /\ ~startsWith(path.text, "@")
    /\ ~inScope(Machine, rootNameOf(path.text))

\* the curly calls that may be a component, a helper or plain data
AmbiguousCurly ==
    /\ TopLevelCurly
    /\ BareName(Callee)
    /\ Callee.text \notin builtInKeywords
    /\ ~isIgnoredComponent(Callee.text)

AmbiguityMessages ==
    { <<"unsupported ambiguous syntax">>,
      <<"unsupported ambiguity between helper and component">> }

NoAmbiguityError ==
    \A i \in 1..Len(last.errs) : last.errs[i].message \notin AmbiguityMessages

Untouched == last.after = last.before /\ last.res = NoRes

\* the callee was replaced by the identifier bound to the specifier
CalleeBoundTo(specifier) ==
    /\ last.after.path[1].type = "PathExpression"
    /\ \E i \in 1..Len(imports) :
           imports[i] = [specifier |-> specifier, name |-> last.after.path[1].text]

ComponentsSpecifier(name) == <<"#embroider_compat/components/">> \o name

AmbiguousSpecifier(name) == <<"#embroider_compat/ambiguous/">> \o name

\* C1: a top-level curly call of a bare name (no '/', not built-in, not
\* safeToIgnore, no disambiguate entry) without arguments, with at least one
\* of static components and static helpers enabled, reports 'unsupported
\* ambiguous syntax', leaves the callee as it was and resolves to nothing.
C1_AmbiguousSyntaxReported ==
    ( /\ AmbiguousCurly
      /\ ~includes(Callee.text, "/")
      /\ ~HasArgs
      /\ disambiguateOf(Callee.text) = <<>>
      /\ (staticComponentsEnabled \/ staticHelpersEnabled) )
    => /\ last.errs = <<AmbiguousSyntax(Callee.text)>>
       /\ Last(reported) = AmbiguousSyntax(Callee.text)
       /\ Untouched

C1_Witness ==
    /\ TopLevelCurly
    /\ last.before = Mustache(S("hello-world"), NoArgs)
    /\ options.staticHelpers /\ ~options.staticComponents /\ ~auditHandler
    /\ options.allowUnsafeDynamicComponents
    /\ last.errs = <<AmbiguousSyntax(S("hello-world"))>>
    /\ dropped = 1

\* C2: an ambiguous top-level curly call with arguments and no disambiguate
\* entry resolves to a Component in the ambiguous namespace when static
\* components and static helpers are both enabled, reports the 'do not
\* agree' error without a rewrite when exactly one is, and does nothing when
\* neither is.
C2_AmbiguousWithArguments ==
    ( /\ AmbiguousCurly
      /\ HasArgs
      /\ disambiguateOf(Callee.text) = <<>> )
    => IF staticComponentsEnabled /\ staticHelpersEnabled
       THEN /\ last.res.type = "component"
            /\ last.res.specifier = AmbiguousSpecifier(Callee.text)
            /\ CalleeBoundTo(AmbiguousSpecifier(Callee.text))
            /\ NoAmbiguityError
       ELSE IF staticComponentsEnabled \/ staticHelpersEnabled
       THEN /\ last.errs = <<AmbiguousToggles(Callee.text)>>
            /\ Untouched
       ELSE /\ last.errs = <<>>
            /\ Untouched

C2_Witness ==
    /\ TopLevelCurly
    /\ last.before = Mustache(S("hello-world"), Args(<<>>, SomeHash))
    /\ options.staticHelpers /\ options.staticComponents
    /\ last.res.type = "component"
    /\ last.res.specifier = AmbiguousSpecifier(S("hello-world"))
    /\ uses = <<<<AmbiguousSpecifier(S("hello-world")), <<"hello-world", "_">>>>>>

\* the outcome the disambiguate entry `dis` names, whatever the toggles
EntryAlone(dis) ==
    CASE dis = "component" ->
             /\ last.res.type = "component"
             /\ last.res.specifier = ComponentsSpecifier(Callee.text)
      [] dis = "helper" -> last.res.type = "helper"
      [] OTHER -> Untouched

\* C3 as stated: with a disambiguate entry for the callee of an ambiguous
\* top-level curly call, the entry alone decides the outcome, whichever of
\* the two toggles are enabled.
C3_EntryAloneDecides ==
    ( /\ AmbiguousCurly
      /\ disambiguateOf(Callee.text) # <<>>
      /\ (staticComponentsEnabled \/ staticHelpersEnabled) )
    => /\ EntryAlone(disambiguateOf(Callee.text)[1])
       /\ NoAmbiguityError

\* the outcome the disambiguate entry `dis` names under the toggles
EntryUnderToggles(dis) ==
    CASE dis = "component" /\ staticComponentsEnabled ->
             /\ last.res.type = "component"
             /\ last.res.specifier = ComponentsSpecifier(Callee.text)
             /\ CalleeBoundTo(ComponentsSpecifier(Callee.text))
      [] dis = "helper" /\ staticHelpersEnabled ->
             /\ last.res.type = "helper"
             /\ CalleeBoundTo(<<"#embroider_compat/helpers/">> \o Callee.text)
      [] OTHER -> Untouched

\* C3: with a disambiguate entry for the callee of an ambiguous top-level
\* curly call, with or without arguments, 'component' gives the unambiguous
\* component resolution when static components is enabled, 'helper' gives a
\* helper resolution when static helpers is enabled, and every other case
\* ('data', or the toggle of the named kind being off) leaves the node
\* untouched; no ambiguity error is reported in any of them.
C3_EntryDecidesUnderToggles ==
    ( /\ AmbiguousCurly
      /\ disambiguateOf(Callee.text) # <<>> )
    => /\ EntryUnderToggles(disambiguateOf(Callee.text)[1])
       /\ last.errs = <<>>

C3_Witness ==
    /\ TopLevelCurly
    /\ last.before = Mustache(S("as-component"), NoArgs)
    /\ rulesCfg # <<>>
    /\ options.staticHelpers /\ ~options.staticComponents /\ ~auditHandler
    /\ Untouched
    /\ last.errs = <<>>

\* the calls C4 is about: no audit collector, static components disabled,
\* static helpers enabled, a bare callee, no arguments
BareReferenceHelpersOnly ==
    /\ ~options.staticComponents /\ options.staticHelpers /\ ~auditHandler
    /\ TopLevelCurly
    /\ BareName(Callee)
    /\ ~HasArgs

\* C4 as stated: such a call resolves to nothing, reports no error and
\* never produces a Helper.
C4_AlwaysData == BareReferenceHelpersOnly => (Untouched /\ last.errs = <<>>)

\* the names such a call is left alone for
LeftAsData(name) ==
    \/ name \in builtInKeywords
    \/ isIgnoredComponent(name)
    \/ disambiguateOf(name) \in { <<"component">>, <<"data">> }

\* C4: such a call never produces a Component; it is left untouched without
\* an error when the name is built-in, safeToIgnore or disambiguated to
\* 'component' or 'data', resolves to a Helper when disambiguated to
\* 'helper', and reports an ambiguity error otherwise.
C4_DataOnlyWhenKnown ==
    BareReferenceHelpersOnly
    => /\ last.res.type # "component"
       /\ IF LeftAsData(Callee.text) THEN Untouched /\ last.errs = <<>>
          ELSE IF disambiguateOf(Callee.text) = <<"helper">>
          THEN last.res.type = "helper" /\ last.errs = <<>>
          ELSE /\ Untouched
               /\ last.errs = << IF includes(Callee.text, "/")
                                 THEN AmbiguousToggles(Callee.text)
                                 ELSE AmbiguousSyntax(Callee.text) >>

C4_Witness ==
    /\ BareReferenceHelpersOnly
    /\ last.before = Mustache(S("hello-world"), NoArgs)
    /\ ~options.allowUnsafeDynamicComponents
    /\ thrown = <<AmbiguousSyntax(S("hello-world"))>>

\* the last handler ran on a call whose callee, or on an element whose
\* dasherized tag, is a built-in keyword
BuiltInCallee ==
    \/ /\ last.handler \in {"MustacheStatement", "BlockStatement", "SubExpression",
                            "ElementModifierStatement"}
       /\ Callee.type = "PathExpression"
       /\ Callee.text \in builtInKeywords
    \/ /\ last.handler = "ElementNode"
       /\ startsUpperCase(last.before.text)
       /\ dasherize(last.before.text) \in builtInKeywords

\* C5: under every combination of the toggles and audit mode, a resolution
\* tried for a built-in keyword (as a tag, callee or string literal handed
\* to a dynamic construct) comes to nothing and changes nothing, a built-in
\* callee or tag is never rewritten, and no ambiguity error is reported.
C5_BuiltInsNeverResolved ==
    /\ last.target \in builtInKeywords => (Untouched /\ last.errs = <<>>)
    /\ BuiltInCallee
       => /\ last.after.path = last.before.path
          /\ last.after.text = last.before.text
          /\ NoAmbiguityError

C5_Witness ==
    /\ last.handler = "SubExpression"
    /\ last.before = Sub(S("helper"), Args(<<StringLiteral(S("input"))>>, <<>>))
    /\ options.staticHelpers /\ options.staticComponents /\ options.staticModifiers
    /\ last.target = S("input")
    /\ Untouched

\* the last handler ran on a call or element whose name is looked up as a
\* component: an element tag, a block call, a top-level curly call, or a
\* string handed to the component keyword
ComponentPosition ==
    \/ last.handler \in {"ElementNode", "BlockStatement"}
    \/ /\ last.handler \in {"MustacheStatement", "SubExpression"}
       /\ Callee.text = S("component") /\ Len(last.before.params) > 0
    \/ /\ TopLevelCurly
       /\ ~(Callee.text = S("helper") /\ Len(last.before.params) > 0)

IgnoredTarget == last.target # <<>> /\ isIgnoredComponent(last.target)

\* C6 as stated: a resolution tried for a safeToIgnore name comes to
\* nothing in every call form, the helper and modifier forms included.
C6_IgnoredInEveryForm == IgnoredTarget => Untouched

\* the toggle of the kind a call outside component position resolves to
KindEnabled ==
    IF \/ last.handler = "ElementModifierStatement"
       \/ Callee.text = S("modifier") /\ Len(last.before.params) > 0
    THEN staticModifiersEnabled
    ELSE staticHelpersEnabled

\* C6: a resolution tried for a safeToIgnore name comes to nothing where the
\* name is looked up as a component (element tag, block call, top-level
\* curly call with any disambiguate entry, string handed to the component
\* keyword); in a sub-call, an attribute-position curly call, an element
\* modifier or the helper and modifier keywords the rule has no effect and
\* the name resolves whenever the toggle of its kind is on.
C6_IgnoredAsComponentOnly ==
    IgnoredTarget
    => IF ComponentPosition THEN Untouched /\ last.errs = <<>>
       ELSE last.res.type \in {"helper", "modifier"} <=> KindEnabled

C6_Witness ==
    /\ TopLevelCurly
    /\ last.before = Mustache(S("this-one"), NoArgs)
    /\ options.staticHelpers /\ options.staticComponents
    /\ disambiguateOf(S("this-one")) = <<"helper">>
    /\ rulesBuilt
    /\ Untouched

\* C7: one import binding per specifier, and every use site of a specifier
\* was given the identifier of that binding, so that use sites of the same
\* specifier share one identifier.
C7_OneBindingPerSpecifier ==
    /\ \A i, j \in 1..Len(imports) :
           imports[i].specifier = imports[j].specifier => i = j
    /\ \A k \in 1..Len(uses) :
           \E i \in 1..Len(imports) :
               imports[i] = [specifier |-> uses[k][1], name |-> uses[k][2]]

C7_Witness ==
    /\ Len(uses) = 3
    /\ uses[1] = uses[3]
    /\ uses[2][1] # uses[1][1]
    /\ Len(imports) = 2

\* the component whose arguments the last handler examined: <<>> when it
\* examined none
ExaminedComponent ==
    IF TopLevelCurly /\ last.res.type = "component" THEN <<last.res>>
    ELSE IF last.handler \in {"Program.exit", "ElementNode.exit"} /\ last.fired # <<>>
    THEN <<last.fired[1].resolution>>
    ELSE <<>>

\* the argument an attribute or hash key names
ArgumentName(key) ==
    IF last.before.type # "ElementNode" THEN key
    ELSE IF key[1] = "@" THEN Tail(key) ELSE <<>>

\* the value is the identifier bound to the component called v
ReplacedBy(value, v) ==
    \E i \in 1..Len(imports) :
        /\ imports[i].specifier = ComponentsSpecifier(v)
        /\ value = IF last.before.type = "ElementNode"
                   THEN MustacheOf(PathExpression(imports[i].name))
                   ELSE PathExpression(imports[i].name)

Resolvable(v) == v \notin builtInKeywords /\ ~isIgnoredComponent(v)

\* C8 as stated: every listed argument with a string-literal value is
\* replaced, whatever the string.
C8_EveryLiteralReplaced ==
    ExaminedComponent # <<>>
    => \A i \in 1..Len(last.before.hash) :
           ( /\ listIncludes(ExaminedComponent[1].argumentsAreComponents,
                             ArgumentName(last.before.hash[i].key))
             /\ literalOf(last.before.hash[i].value) # <<>> )
           => ReplacedBy(last.after.hash[i].value, literalOf(last.before.hash[i].value))

\* what the examination did to the i-th argument of a component with the
\* listed arguments
ArgumentRewritten(listed, i) ==
    IF ~listIncludes(listed, ArgumentName(last.before.hash[i].key))
    THEN last.after.hash[i] = last.before.hash[i]
    ELSE IF literalOf(last.before.hash[i].value) = <<>> THEN TRUE
    ELSE IF Resolvable(literalOf(last.before.hash[i].value))
    THEN /\ last.after.hash[i].key = last.before.hash[i].key
         /\ ReplacedBy(last.after.hash[i].value, literalOf(last.before.hash[i].value))
    ELSE last.after.hash[i] = last.before.hash[i]

\* C8: in the element, block and top-level curly forms, each listed argument
\* whose value is a string literal naming neither a built-in keyword nor a
\* safeToIgnore component is replaced by the identifier bound to
\* '#embroider_compat/components/<value>' (a built-in or safeToIgnore value
\* stays the string it was), arguments not listed are left untouched, and
\* the component's own specifier has one binding.
C8_ListedLiteralsReplaced ==
    ExaminedComponent # <<>>
    => /\ Len(last.after.hash) = Len(last.before.hash)
       /\ \A i \in 1..Len(last.before.hash) :
              ArgumentRewritten(ExaminedComponent[1].argumentsAreComponents, i)
       /\ Cardinality(importsOf(Machine, ExaminedComponent[1].specifier)) = 1

C8_Witness ==
    /\ last.handler = "ElementNode.exit"
    /\ last.fired # <<>>
    /\ visited = 2
    /\ last.before.hash = <<Pair(<<"@", "iAmAComponent">>, TextNode(S("second-target")))>>
    /\ last.after.hash[1].value = MustacheOf(PathExpression(<<"second-target", "_">>))
    /\ importsOf(Machine, ComponentsSpecifier(S("first-target"))) # {}

AllOff ==
    /\ ~options.staticComponents /\ ~options.staticHelpers /\ ~options.staticModifiers
    /\ ~auditHandler

\* C9: with the three toggles off and no audit collector, no handler
\* rewrites its node or resolves anything, nothing is imported, no error is
\* reported and the rule index is never built.
C9_NothingWhenAllOff ==
    AllOff
    => /\ last.after = last.before /\ last.res = NoRes /\ last.fired = <<>>
       /\ imports = <<>> /\ uses = <<>>
       /\ reported = <<>> /\ thrown = <<>> /\ audit = <<>> /\ dropped = 0
       /\ ~rulesBuilt

C9_Witness ==
    /\ AllOff
    /\ rulesCfg # <<>>
    /\ last.handler = "ElementModifierStatement"
    /\ last.before = Modifier(S("hello-world"))
    /\ last.after = last.before

\* every error handed to reportError so far went one way, the way the
\* configuration names
ReportOutcome ==
    /\ Len(reported) = Len(thrown) + Len(audit) + dropped
    /\ IF auditHandler
       THEN audit = reported /\ thrown = <<>> /\ dropped = 0
       ELSE IF options.allowUnsafeDynamicComponents
       THEN dropped = Len(reported) /\ thrown = <<>> /\ audit = <<>>
       ELSE thrown = reported /\ audit = <<>> /\ dropped = 0
    /\ ~(thrown # <<>> /\ audit # <<>>)

\* C10: every reported error is thrown (no collector, no tolerance), or
\* appended once to the audit collector (collector registered), or dropped
\* (no collector, tolerance set), never two of these; and no handler runs
\* once an error has been thrown.
C10_OneOutcomePerError == []ReportOutcome /\ [][thrown = <<>>]_vars

C10_Witness ==
    /\ auditHandler /\ ~options.allowUnsafeDynamicComponents
    /\ Len(reported) = 1
    /\ audit = reported
    /\ last.errs = reported

\* every argument the examination found no literal in is as it was
NonLiteralsKept ==
    /\ Len(last.after.hash) = Len(last.before.hash)
    /\ \A i \in 1..Len(last.before.hash) :
           literalOf(last.before.hash[i].value) = <<>>
           => last.after.hash[i] = last.before.hash[i]

\* what the last handler reported left its node, or the argument the error
\* is about, as it was
ErrorNodeKept ==
    last.errs # <<>>
    => IF ExaminedComponent = <<>> THEN last.after = last.before ELSE NonLiteralsKept

\* the errors of the last handler are the end of the collector's list
CollectedInOrder ==
    /\ audit = reported
    /\ Len(last.errs) <= Len(audit)
    /\ SubSeq(audit, Len(audit) - Len(last.errs) + 1, Len(audit)) = last.errs
    /\ last.res.type = "error" => last.errs = <<last.res>>

\* a resolution of the last handler was bound and substituted
ResolutionRewritten ==
    last.res.type \in {"component", "helper", "modifier"}
    => /\ \E k \in 1..Len(uses) : uses[k][1] = last.res.specifier
       /\ last.after # last.before

\* C11: with an audit collector nothing is ever thrown or dropped, every
\* reported error is appended to the collector in the order of the walk, the
\* node or argument an error is about stays as it was, a node that resolves
\* is rewritten whatever was collected before it, and the walk reaches the
\* end of the template.
C11_AuditRunsToCompletion ==
    /\ [](auditHandler => /\ thrown = <<>> /\ dropped = 0
                          /\ CollectedInOrder
                          /\ ErrorNodeKept
                          /\ ResolutionRewritten)
    /\ (auditHandler ~> phase = "done")

C11_Witness ==
    /\ auditHandler
    /\ visited = 2
    /\ Len(audit) = 1
    /\ last.handler = "MustacheStatement"
    /\ last.errs = <<>>
    /\ last.res.type = "component"
    /\ last.after # last.before

\* C12 as stated: without an audit collector and with unsafe dynamic forms
\* tolerated, an ambiguity error is still thrown.
C12_AmbiguityStillThrown ==
    ( /\ ~auditHandler /\ options.allowUnsafeDynamicComponents
      /\ \E i \in 1..Len(last.errs) : last.errs[i].message \in AmbiguityMessages )
    => thrown # <<>>

\* the last handler ran on a curly `component` call whose first argument is
\* a path, with static components enabled and rules that can be indexed
ComponentOfPath ==
    /\ ~Malformed
    /\ last.handler = "MustacheStatement"
    /\ ~last.bound
    /\ Callee.text = S("component")
    /\ Len(last.before.params) > 0
    /\ last.before.params[1].type = "PathExpression"
    /\ staticComponentsEnabled

\* the current file's template rule lists the path under safeInteriorPaths
InteriorSafe(path) ==
    /\ findRules(filename) # <<>>
    /\ listIncludes(findRules(filename)[1].safeInteriorPaths, path)

UnsafePath(path) == ResolutionFail(<<"Unsafe dynamic component">>, path)

\* C13: a path handed to `component` is left alone without an error when
\* safeComponentInScope proves it safe, else when the file's template rule
\* lists it under safeInteriorPaths, and is otherwise reported as an unsafe
\* dynamic component whose detail is the path, a block param that is in
\* scope but not proven safe included.
C13_PathArgumentOrder ==
    ComponentOfPath
    => LET path == last.before.params[1].text
       IN IF safeComponentInScope(Machine, path).r \/ InteriorSafe(path)
          THEN Untouched /\ last.errs = <<>>
          ELSE /\ last.res = UnsafePath(path)
               /\ last.errs = <<UnsafePath(path)>>
               /\ last.after = last.before

\* `h.title` under a block that yields `h` as a component: in scope, not proven
C13_Witness ==
    /\ ComponentOfPath
    /\ inScope(Machine, S("h"))
    /\ last.before.params[1].text = <<"h", ".", "title">>
    /\ last.res = UnsafePath(<<"h", ".", "title">>)

\* `h` proven safe by the marker of the block that yields it
C13_WitnessProven ==
    /\ ComponentOfPath
    /\ last.before.params[1].text = S("h")
    /\ safeComponentInScope(Machine, S("h")).r
    /\ Untouched

\* a call of `component` or of `ensure-safe-component` given as a value
TrustedCall(v) ==
    /\ v.type \in {"SubExpression", "MustacheStatement"}
    /\ v.type = "MustacheStatement" => Len(v.params) > 0 \/ Len(v.hash) > 0
    /\ v.path[1].type = "PathExpression"
    /\ v.path[1].text \in { S("component"), S("ensure-safe-component") }

\* the errors the last handler reported about the argument called `name`
ErrorsAbout(name) ==
    { e \in 1..Len(last.errs) :
        /\ Len(last.errs[e].message) > 1
        /\ last.errs[e].message[1] = "argument "
        /\ <<last.errs[e].message[2]>> = name }

\* the value is neither a path nor an argument-less curly
NonPathValue(v) ==
    /\ v.type # "PathExpression"
    /\ ~(v.type = "MustacheStatement" /\ v.params = <<>> /\ v.hash = <<>>)

\* C14 as stated: of the values a template gives to the arguments a
\* component takes as components, a string literal or text is resolved
\* without an error, a call of `component` or `ensure-safe-component` is
\* left alone without an error, and every other value that is not a path is
\* reported with the detail `cannot statically analyze this expression`.
C14_NonPathClassification ==
    ExaminedComponent # <<>>
    => \A i \in 1..Len(last.source.hash) :
           LET v == last.source.hash[i].value
               name == ArgumentName(last.source.hash[i].key)
           IN ( /\ listIncludes(ExaminedComponent[1].argumentsAreComponents, name)
                /\ NonPathValue(v) )
              => IF literalOf(v) # <<>> \/ TrustedCall(v)
                 THEN ErrorsAbout(name) = {}
                 ELSE \E e \in ErrorsAbout(name) :
                          last.errs[e].detail
                              = <<"cannot statically analyze this expression">>

\* the last handler ran on a `helper` call (curly or sub-call) or on a
\* `modifier` sub-call that has a positional argument: <<>> when it did not,
\* else the start of the keyword's specifiers
DynamicKeyword ==
    IF \/ last.bound
       \/ last.handler \notin {"MustacheStatement", "SubExpression"}
       \/ last.before.path[1].type # "PathExpression"
       \/ Len(last.before.params) = 0
    THEN <<>>
    ELSE IF Callee.text = S("helper") THEN <<"#embroider_compat/helpers/">>
    ELSE IF Callee.text = S("modifier") /\ last.handler = "SubExpression"
    THEN <<"#embroider_compat/modifiers/">>
    ELSE <<>>

KeywordEnabled ==
    IF DynamicKeyword = <<"#embroider_compat/helpers/">> THEN staticHelpersEnabled
    ELSE staticModifiersEnabled

\* params[0], and nothing else, was replaced by the identifier bound to the
\* specifier of the text under the keyword's namespace
FirstParamBound(text) ==
    \E i \in 1..Len(imports) :
        /\ imports[i].specifier = DynamicKeyword \o text
        /\ last.after = [last.before EXCEPT !.params[1] = PathExpression(imports[i].name)]

\* C15 as stated: a string-literal first argument is replaced whenever the
\* keyword's toggle is on, whatever the string.
C15_EveryLiteralBound ==
    (DynamicKeyword # <<>> /\ KeywordEnabled
     /\ last.before.params[1].type = "StringLiteral")
    => FirstParamBound(last.before.params[1].text)

\* C15: in a `helper` curly or sub-call and in a `modifier` sub-call with a
\* positional argument, a string-literal first argument that names no
\* built-in keyword is, with the keyword's toggle on, replaced by the
\* identifier bound to '#embroider_compat/helpers/<text>' or
\* '#embroider_compat/modifiers/<text>', the callee staying as it was; with
\* any other first argument, a built-in name or the toggle off the call is
\* left untouched, and no error is reported in any of these cases.
C15_NamedLiteralBound ==
    DynamicKeyword # <<>>
    => /\ last.errs = <<>>
       /\ IF /\ KeywordEnabled
             /\ last.before.params[1].type = "StringLiteral"
             /\ last.before.params[1].text \notin builtInKeywords
          THEN FirstParamBound(last.before.params[1].text)
          ELSE Untouched

\* `(modifier this.foo)` with static modifiers on: left as it is
C15_Witness ==
    /\ DynamicKeyword = <<"#embroider_compat/modifiers/">>
    /\ options.staticModifiers
    /\ last.before.params[1] = PathExpression(<<"this", ".", "foo">>)
    /\ Untouched

\* `(modifier "hello-world")` with static modifiers on: the argument is bound
C15_WitnessBound ==
    /\ DynamicKeyword = <<"#embroider_compat/modifiers/">>
    /\ options.staticModifiers
    /\ last.before.params[1] = StringLiteral(S("hello-world"))
    /\ last.after.params[1] = PathExpression(<<"hello-world", "_">>)
    /\ last.after.path = last.before.path

\* the last handler ran on a call whose callee is a path, or on an element
CallWithCallee ==
    \/ last.handler = "ElementNode"
    \/ /\ last.handler \in {"BlockStatement", "MustacheStatement", "SubExpression",
                             "ElementModifierStatement"}
       /\ Callee.type = "PathExpression"

\* the callee as written: the tag of an element, the path of a call
CalleeText == IF last.handler = "ElementNode" THEN last.before.text ELSE Callee.text

\* the first segment of the callee, without `this.` and `@`
CalleeRoot ==
    LET head == split(CalleeText, ".")[1]
        parts == split(CalleeText, ".")
    IN IF last.handler = "ElementNode" THEN head
       ELSE IF head = <<"this">> THEN (IF Len(parts) > 1 THEN parts[2] ELSE <<>>)
       ELSE IF startsWith(head, "@") THEN Tail(head)
       ELSE head

\* the nodes the walk was inside of when the last handler ran
Enclosing ==
    IF last.handler = "ElementNode" /\ thrown = <<>>
    THEN SubSeq(open, 1, Len(open) - 1) ELSE open

\* a block param of an enclosing block or element, or a caller-supplied local
Enclosed(name) ==
    \/ locals.defined /\ listIncludes(locals.names, name)
    \/ \E i \in 1..Len(Enclosing) :
           /\ Enclosing[i].node.type \in {"Block", "ElementNode"}
           /\ listIncludes(Enclosing[i].node.blockParams, name)

ContextualCallee ==
    /\ CallWithCallee
    /\ \/ Enclosed(CalleeRoot)
       \/ /\ last.handler \in {"BlockStatement", "MustacheStatement",
                                "ElementModifierStatement"}
          /\ \/ split(CalleeText, ".")[1] = <<"this">>
             \/ includes(CalleeText, ".")
       \/ /\ last.handler \in {"MustacheStatement", "ElementModifierStatement"}
          /\ startsWith(CalleeText, "@")

\* C16: a callee whose root segment is a block param of an enclosing block
\* or element or a caller-supplied local (any call kind), a this-relative or
\* dotted callee (block, curly and modifier calls) and an @-argument callee
\* (curly and modifier calls) is never rewritten and never reported.
C16_ContextualLeftAlone == ContextualCallee => (Untouched /\ last.errs = <<>>)

\* `{{h}}` under a block that binds h, itself inside a node that does not
C16_Witness ==
    /\ last.handler = "MustacheStatement"
    /\ CalleeText = S("h")
    /\ staticHelpersEnabled /\ staticComponentsEnabled
    /\ Len(open) > 3
    /\ ~listIncludes(Top.node.blockParams, S("h"))
    /\ Enclosed(S("h"))
    /\ Untouched

\* an element whose tag is a caller-supplied local
C16_WitnessLocal ==
    /\ last.handler = "ElementNode"
    /\ CalleeText = S("HelloWorld")
    /\ locals.defined
    /\ staticComponentsEnabled
    /\ Untouched

\* the last handler entered an element whose tag's root is not in scope
TagNotInScope == last.handler = "ElementNode" /\ ~last.bound

\* the tokens whose first character is a lower-case letter
LowerCaseFirst == {"div", "h"}

\* the tag was resolved as the component of its dashed name and replaced by
\* the identifier bound to it
TagResolved ==
    /\ last.res.type = "component"
    /\ last.res.specifier = ComponentsSpecifier(dasherize(last.before.text))
    /\ \E i \in 1..Len(imports) :
           /\ imports[i].specifier = last.res.specifier
           /\ last.after = [last.before EXCEPT !.text = imports[i].name]

TagResolvable ==
    /\ staticComponentsEnabled
    /\ dasherize(last.before.text) \notin builtInKeywords
    /\ ~isIgnoredComponent(dasherize(last.before.text))

\* C17 as stated: a tag that does not start with a lower-case letter is
\* resolved whenever static components is enabled and the name is neither
\* built-in nor ignored.
C17_EveryOtherTagResolved ==
    TagNotInScope
    => IF last.before.text[1] \in LowerCaseFirst THEN Untouched
       ELSE TagResolvable => TagResolved

\* C17: of the tags whose root is not in scope, one whose first character
\* lower-casing changes (an upper-case letter) is resolved as the component
\* of its dashed name, '#embroider_compat/components/<dashed-name>', and
\* replaced by the bound identifier when static components is enabled and
\* the name is neither built-in nor safeToIgnore; every other tag, one that
\* starts with a lower-case letter or with `@` included, is left untouched;
\* no error is reported.
C17_UpperCaseTagResolved ==
    TagNotInScope
    => /\ last.errs = <<>>
       /\ IF startsUpperCase(last.before.text) /\ TagResolvable
          THEN TagResolved ELSE Untouched

\* `<@arg />` with static components on: left as it is
C17_Witness ==
    /\ TagNotInScope
    /\ last.before.text = <<"@", "arg">>
    /\ options.staticComponents
    /\ Untouched

\* `<HelloWorld />` resolved and replaced
C17_WitnessResolved ==
    /\ TagNotInScope
    /\ last.before.text = S("HelloWorld")
    /\ TagResolved
    /\ last.after.text = <<"hello-world", "_">>

\* the last handler had to ask the rule index: it entered an element or a
\* block whose callee is a global name that is no built-in, with static
\* components enabled
NeedsIndex ==
    /\ ~last.bound
    /\ staticComponentsEnabled
    /\ \/ /\ last.handler = "ElementNode"
          /\ startsUpperCase(last.before.text)
          /\ dasherize(last.before.text) \notin builtInKeywords
       \/ /\ last.handler = "BlockStatement"
          /\ Callee.type = "PathExpression"
          /\ ~includes(Callee.text, ".")
          /\ Callee.text \notin builtInKeywords

Channelled(list) == \E i \in 1..Len(list) : list[i].type = "fatal"

\* C18: with a component snippet that gives no name, the handler that first
\* needs the rule index ends in the thrown snippet error, with or without
\* an audit collector and tolerance of unsafe dynamic forms; that error is
\* never reported, collected or dropped, no index is ever built and no
\* component is resolved or marked from one.
C18_SnippetErrorIsFatal ==
    Malformed
    => /\ ~rulesBuilt
       /\ ~Channelled(reported) /\ ~Channelled(audit) /\ dropped = 0
       /\ last.res.type # "component"
       /\ \A i \in 1..Len(scopeStack) : scopeStack[i].type # "componentBlockMarker"
       /\ \A k \in 1..Len(uses) : uses[k][1][1] # "#embroider_compat/components/"
       /\ thrown # <<>> => thrown = <<SnippetError>>
       /\ NeedsIndex => /\ thrown = <<SnippetError>>
                        /\ last.errs = <<>>
                        /\ Untouched

\* the throw under an audit collector and tolerance, after a node that
\* needed no index
C18_Witness ==
    /\ Malformed
    /\ auditHandler /\ options.allowUnsafeDynamicComponents
    /\ NeedsIndex
    /\ visited > 1
    /\ thrown = <<SnippetError>>

\* the places of the markers in the scope stack, the head being 1
Markers == { j \in 1..Len(scopeStack) : scopeStack[j].type = "componentBlockMarker" }

\* the entry just inside of which the marker at j sits is the frame of the
\* block params of the call the marker was made for
UnderItsFrame(j) ==
    /\ j > 1
    /\ scopeStack[j - 1].type = "blockParams"
    /\ scopeStack[j - 1].blockParams = open[scopeStack[j].exit.at].node.blockParams

\* the marker is that of a curly block call whose program is not entered yet
BeforeItsProgram(j) ==
    /\ scopeStack[j].exit.form = "block"
    /\ open[scopeStack[j].exit.at].node.type = "BlockStatement"
    /\ \/ Len(open) = scopeStack[j].exit.at
       \/ open[scopeStack[j].exit.at + 1].node.type # "Block"

C19_WitnessHead ==
    /\ thrown = <<>>
    /\ 1 \in Markers
    /\ last.handler = "SubExpression"

\* the frames of the scope stack that bind the name, the head being 1
Binders(root) ==
    { i \in 1..Len(scopeStack) :
        /\ scopeStack[i].type = "blockParams"
        /\ listIncludes(scopeStack[i].blockParams, root) }

\* the marker's rule covers the reference to the block param at `position`
Covers(marker, position, parts) ==
    LET safeEntry == YAt(marker.resolution.yieldsComponents, position)
        argsEntry == YAt(marker.resolution.yieldsArguments, position)
    IN IF Len(parts) = 1
       THEN safeEntry.t = "true" \/ argsEntry.t = "str"
       ELSE /\ Len(parts) = 2
            /\ \/ safeEntry.t = "map" /\ YField(safeEntry, parts[2]) = <<S("true")>>
               \/ argsEntry.t = "map" /\ YField(argsEntry, parts[2]) # <<>>

\* the innermost frame that binds the root of the path is annotated by a
\* marker whose rule covers the path
ProvenByNearest(path) ==
    LET parts == split(path, ".")
        binders == Binders(parts[1])
    IN /\ binders # {}
       /\ LET b == CHOOSE i \in binders : \A j \in binders : i <= j
          IN /\ b < Len(scopeStack)
             /\ scopeStack[b + 1].type = "componentBlockMarker"
             /\ Covers(scopeStack[b + 1],
                       indexOf(scopeStack[b].blockParams, parts[1]), parts)

\* C20 as stated: a path handed to `component` passes as a safe component
\* in scope only when the innermost block that binds its root is a
\* component's block whose rule covers it; a nearer binding without a
\* marker shadows an outer one that has it.
C20_NearestBindingShadows ==
    LET path == last.before.params[1].text
    IN (ComponentOfPath /\ Untouched /\ ~InteriorSafe(path)) => ProvenByNearest(path)


\* the segments of the path the last `component` call was handed
RefParts == split(last.before.params[1].text, ".")

\* the frame that binds the root of that path just above a marker, 0 when
\* there is none
RefPair == matchedPair(scopeStack, RefParts[1])

RefMarker == scopeStack[RefPair + 1]

RefPosition == indexOf(scopeStack[RefPair].blockParams, RefParts[1])

\* the entries of the marker's rule at the position of the root
SafeEntry == YAt(RefMarker.resolution.yieldsComponents, RefPosition)

ArgsEntry == YAt(RefMarker.resolution.yieldsArguments, RefPosition)

\* a `component` call handed a path of two segments whose root is bound
\* just above a marker, the path not being one of the file's safe interior
\* paths
TwoSegmentRef ==
    /\ ComponentOfPath
    /\ Len(RefParts) = 2
    /\ RefPair # 0
    /\ ~InteriorSafe(last.before.params[1].text)

\* the call was left as it was without an error: the path passed for safe
PassedForSafe == Untouched /\ last.errs = <<>>

\* yieldsArguments has a mapping at the position that names a source
\* argument under the second segment
FieldForwarded == ArgsEntry.t = "map" /\ YField(ArgsEntry, RefParts[2]) # <<>>

\* C21 as stated: a two-segment path never passes for safe when the entry of
\* yieldsSafeComponents at the root's position is a boolean, whatever the
\* entry of yieldsArguments at that position.
C21_BooleanEntryNeverSafe ==
    (TwoSegmentRef /\ SafeEntry.t = "true") => ~PassedForSafe

\* C21: a two-segment path whose yieldsSafeComponents entry at the root's
\* position is a boolean is reported as an unsafe dynamic component, unless
\* the yieldsArguments entry at that position is a mapping that names a
\* source argument under the second segment.
C21_BooleanEntryNotForwarded ==
    (TwoSegmentRef /\ SafeEntry.t = "true" /\ ~FieldForwarded)
    => /\ last.res = UnsafePath(last.before.params[1].text)
       /\ last.after = last.before

\* `h.title` where `h` is yielded as a component and forwards `body` only
C21_Witness ==
    /\ TwoSegmentRef
    /\ SafeEntry.t = "true"
    /\ ArgsEntry.t = "map"
    /\ RefParts = <<S("h"), S("title")>>
    /\ last.res = UnsafePath(<<"h", ".", "title">>)


\* yieldsSafeComponents has a mapping at the position that holds `true`
\* under the second segment
FieldSafe == SafeEntry.t = "map" /\ YField(SafeEntry, RefParts[2]) = <<S("true")>>

\* C22 as stated: a two-segment path root.field whose root is matched at a
\* marked frame passes for safe exactly when yieldsSafeComponents has a
\* mapping there with the field set to true or yieldsArguments has a mapping
\* there whose field names a source argument, that argument then being
\* appended to the marker; the yieldsArguments mapping counts also when the
\* yieldsSafeComponents mapping lacks the field.  A path of more than two
\* segments never passes.
C22_FieldWiseCheck ==
    /\ TwoSegmentRef => (PassedForSafe <=> (FieldSafe \/ FieldForwarded))
    /\ (TwoSegmentRef /\ ~FieldSafe /\ FieldForwarded)
       => /\ RefMarker.argumentsAreComponents # <<>>
          /\ Last(RefMarker.argumentsAreComponents) = YField(ArgsEntry, RefParts[2])[1]
    /\ (ComponentOfPath /\ Len(RefParts) > 2
          /\ ~InteriorSafe(last.before.params[1].text))
       => ~PassedForSafe


\* a `component` call handed a block param that its block's rule neither
\* yields as a component nor leaves out of yieldsArguments
ForwardedRef ==
    /\ ComponentOfPath
    /\ Len(RefParts) = 1
    /\ RefPair # 0
    /\ SafeEntry.t # "true"
    /\ ArgsEntry.t = "str"

\* the call the marker at j was made for has its literal arguments as the
\* template had them
ArgumentsUnresolved(j) ==
    LET frame == open[scopeStack[j].exit.at]
    IN \A i \in 1..Len(frame.source.hash) :
           literalOf(frame.source.hash[i].value) # <<>>
           => frame.node.hash[i] = frame.source.hash[i]

\* the last handler was the exit of a component's block and ran the exit
\* callback of its marker
BlockExit ==
    /\ last.handler \in {"Program.exit", "ElementNode.exit"}
    /\ last.fired # <<>>

\* C23: a reference proven safe through a yieldsArguments entry naming
\* source argument A leaves A appended to the marker of the block that
\* yields it; as long as a marker is on the scope stack the literal
\* arguments of its call are as the template had them; and when the block
\* exits every argument named in the marker's list, A among them, goes
\* through dynamic-component resolution as a listed argument does: a literal
\* that can be resolved is replaced by the bound identifier.
C23_ForwardedArgumentResolvedAtExit ==
    /\ ForwardedRef
       => /\ PassedForSafe
          /\ RefMarker.argumentsAreComponents # <<>>
          /\ Last(RefMarker.argumentsAreComponents) = ArgsEntry.v
    /\ thrown = <<>> => \A j \in Markers : ArgumentsUnresolved(j)
    /\ BlockExit
       => /\ Len(last.after.hash) = Len(last.before.hash)
          /\ \A i \in 1..Len(last.before.hash) :
                 ArgumentRewritten(last.fired[1].argumentsAreComponents, i)

\* the block of `{{#hello-world forwarded="first-target" as |h g f|}}` left
\* after `{{component f}}`: `forwarded` was appended and is resolved
C23_Witness ==
    /\ BlockExit
    /\ last.handler = "Program.exit"
    /\ last.fired[1].argumentsAreComponents = <<S("iAmAComponent"), S("forwarded")>>
    /\ last.before.hash = <<Pair(S("forwarded"), StringLiteral(S("first-target")))>>
    /\ last.after.hash[1].value = PathExpression(<<"first-target", "_">>)

\* the same for the element form
C23_WitnessElement ==
    /\ BlockExit
    /\ last.handler = "ElementNode.exit"
    /\ last.fired[1].argumentsAreComponents = <<S("iAmAComponent"), S("forwarded")>>
    /\ last.after.hash[1].value = MustacheOf(PathExpression(<<"first-target", "_">>))


\* the list of component arguments the last handler went through: that of
\* the resolution for a top-level curly call, that of the marker at an exit
ExaminedList ==
    IF TopLevelCurly /\ last.res.type = "component"
    THEN <<last.res.argumentsAreComponents>>
    ELSE IF BlockExit THEN <<last.fired[1].argumentsAreComponents>>
    ELSE <<>>

\* the i-th argument of the examined call is listed and its value is a block
\* param which an enclosing component block yields as the forward of a source
\* argument
YieldedValue(i) ==
    LET value == last.before.hash[i].value
    IN /\ listIncludes(ExaminedList[1], ArgumentName(last.before.hash[i].key))
       /\ value.type = "PathExpression"
       /\ Len(split(value.text, ".")) = 1
       /\ matchedPair(scopeStack, value.text) # 0
       /\ LET pair == matchedPair(scopeStack, value.text)
              position == indexOf(scopeStack[pair].blockParams, value.text)
          IN /\ YAt(scopeStack[pair + 1].resolution.yieldsComponents, position).t # "true"
             /\ YAt(scopeStack[pair + 1].resolution.yieldsArguments, position).t = "str"

\* the source argument the enclosing block forwards as that value is on the
\* enclosing marker's list
ForwardRecorded(i) ==
    LET value == last.before.hash[i].value
        pair == matchedPair(scopeStack, value.text)
        position == indexOf(scopeStack[pair].blockParams, value.text)
    IN listIncludes(scopeStack[pair + 1].argumentsAreComponents,
                    YAt(scopeStack[pair + 1].resolution.yieldsArguments, position).v)

IsPrefix(short, long) ==
    Len(short) <= Len(long) /\ SubSeq(long, 1, Len(short)) = short

\* a marker that stays on the scope stack keeps every name of its list
MarkersKeepFacts ==
    \A j \in Markers :
        LET j2 == Len(scopeStack') - (Len(scopeStack) - j)
        IN (j2 >= 1 /\ scopeStack'[j2].type = "componentBlockMarker")
           => IsPrefix(scopeStack[j].argumentsAreComponents,
                       scopeStack'[j2].argumentsAreComponents)

\* C24: when a component call is handed, as a component argument, a block
\* param that an enclosing component block forwards from source argument B,
\* the examination of the call's arguments (at the exit of its block, or at
\* once for a top-level curly call) leaves the value untouched without an
\* error and B on the enclosing marker's list; a marker that stays on the
\* stack never loses a name; and at the exit of a block every listed
\* argument, B among them, goes through dynamic-component resolution.
C24_FactsFlowOutward ==
    /\ [](ExaminedList # <<>>
          => \A i \in 1..Len(last.before.hash) :
                 YieldedValue(i)
                 => /\ ForwardRecorded(i)
                    /\ last.after.hash[i] = last.before.hash[i]
                    /\ last.errs = <<>>)
    /\ [][MarkersKeepFacts]_vars
    /\ [](BlockExit
          => \A i \in 1..Len(last.before.hash) :
                 ArgumentRewritten(last.fired[1].argumentsAreComponents, i))

\* the inner `{{#hello-world iAmAComponent=f}}` left inside a block that
\* forwards `forwarded` as f: the enclosing marker has `forwarded`
C24_Witness ==
    /\ BlockExit
    /\ last.handler = "Program.exit"
    /\ last.before.hash = <<Pair(S("iAmAComponent"), PathExpression(S("f")))>>
    /\ last.after = last.before
    /\ Len(scopeStack) > 1
    /\ scopeStack[2].type = "componentBlockMarker"
    /\ scopeStack[2].argumentsAreComponents = <<S("iAmAComponent"), S("forwarded")>>


\* the name of the component as the call site wrote it: the tag of an
\* element, the callee of a curly call
WrittenName ==
    IF last.source.type = "ElementNode" THEN last.source.text
    ELSE last.source.path[1].text

\* the message names an argument of the call and the component as written
NamesCallSite(message) ==
    \E i \in 1..Len(last.source.hash) :
        message = ImpliedMessage(<<[componentName |-> WrittenName,
                                    argumentName |->
                                        ArgumentName(last.source.hash[i].key)]>>)

\* C25 as stated: an error that arose while the value of a component
\* argument was resolved names the argument and the component as the call
\* site wrote it, in the element, curly block and top-level curly forms
\* alike; an error of a bare `component` call has the message 'Unsafe
\* dynamic component'.
C25_MessageNamesCallSite ==
    \A k \in 1..Len(last.errs) :
        IF ExaminedList # <<>> /\ last.errs[k].message \notin AmbiguityMessages
        THEN NamesCallSite(last.errs[k].message)
        ELSE (Callee.text = S("component") /\ last.handler # "ElementModifierStatement")
             => last.errs[k].message = <<"Unsafe dynamic component">>


\* the last handler ran on a sub-call whose callee has more than one
\* segment or is an @-argument
ContextualSubCall ==
    /\ last.handler = "SubExpression"
    /\ Callee.type = "PathExpression"
    /\ \/ Len(split(Callee.text, ".")) > 1
       \/ startsWith(Callee.text, "@")

\* C26 as stated: a sub-call whose callee is a dotted path or an @-argument
\* is never resolved globally: it is left as it was and bound to no helper,
\* whatever the static-helper toggle.
C26_ContextualSubCallKept ==
    ContextualSubCall => (last.res.type # "helper" /\ last.after = last.before)


\* the frames of block params on the scope stack
ParamFrames == { j \in 1..Len(scopeStack) : scopeStack[j].type = "blockParams" }

\* the open nodes of the given types
OpenOf(types) == { i \in 1..Len(open) : open[i].node.type \in types }

\* the frames the open nodes have pushed: a Program its block params and the
\* locals when there are any, an element its block params
FramesOwed ==
    Cardinality(OpenOf({"Template", "Block"})) * (IF locals.defined THEN 2 ELSE 1)
    + Cardinality(OpenOf({"ElementNode"}))

\* the last handler was the exit of an element or of a curly block call
CallExit ==
    \/ last.handler = "ElementNode.exit"
    \/ last.handler = "Program.exit" /\ last.before.type = "BlockStatement"

\* the call that was left had been resolved to a component when it was
\* entered: its tag or callee is no longer what the template had
EnteredAsComponent ==
    IF last.before.type = "ElementNode" THEN last.before.text # last.source.text
    ELSE last.before.path # last.source.path

\* C27: as long as no error is thrown the scope stack holds exactly the
\* frames of the open nodes (a Program's block params and locals, an
\* element's block params) and is empty once the walk is done; the markers
\* on it are those of open calls, an inner call's above an outer call's;
\* a handler that is not the exit of a call fires no exit callback, and the
\* exit of a call fires exactly the one of its own marker when the call was
\* entered as a component and none otherwise, so each callback fires once,
\* at the exit of its block and before that of any enclosing marker.
C27_FramesLastInFirstOut ==
    thrown = <<>>
    => /\ Cardinality(ParamFrames) = FramesOwed
       /\ phase = "done" => scopeStack = <<>>
       /\ \A j \in Markers :
              /\ scopeStack[j].exit.at \in OpenOf({"ElementNode", "BlockStatement"})
              /\ \A k \in Markers : j < k => scopeStack[j].exit.at > scopeStack[k].exit.at
       /\ ~CallExit => last.fired = <<>>
       /\ CallExit
          => IF EnteredAsComponent
             THEN /\ Len(last.fired) = 1
                  /\ last.fired[1].exit.at = Len(open) + 1
             ELSE last.fired = <<>>

\* a component block left inside another component's block, with locals:
\* its callback has fired, the enclosing marker is still on the stack
C27_Witness ==
    /\ thrown = <<>>
    /\ locals.defined
    /\ CallExit
    /\ Len(last.fired) = 1
    /\ Markers # {}

\* the walk done with locals: the stack is empty
C27_WitnessDone ==
    /\ thrown = <<>>
    /\ locals.defined
    /\ phase = "done"
    /\ visited = MaxScopeNodes
    /\ scopeStack = <<>>


\* the last handler ran on a modifier of the element the walk is in, or on
\* a curly call that is the value of one of its attributes
InOwnAttributes ==
    /\ thrown = <<>>
    /\ open # <<>>
    /\ Top.node.type = "ElementNode"
    /\ \/ last.handler = "ElementModifierStatement"
       \/ last.handler = "MustacheStatement" /\ last.inAttr
    /\ Callee.type = "PathExpression"

\* C28 as stated: a call in an element's own attributes or modifiers whose
\* callee the handler found in scope is bound by a frame of the enclosing
\* scope, the element's own block params (the head of the scope stack) not
\* counting.
C28_OwnParamsOnlyInBody ==
    (InOwnAttributes /\ last.bound)
    => \E j \in ParamFrames :
           j > 1 /\ listIncludes(scopeStack[j].blockParams, CalleeRoot)


\* no name occurs twice in the list
NoRepeats(list) ==
    \A a, b \in 1..Len(list) : list[a] = list[b] => a = b

\* the error is about an identifier that emit bound
AboutBoundIdentifier(e) ==
    \E i \in 1..Len(imports) : imports[i].name = e.detail

\* C29 as stated: the working list of a marker never holds the same
\* argument name twice, however often the forwarded block param is referred
\* to, and no exit reports as unsafe an argument value that was already
\* replaced by a bound identifier.
C29_EachArgumentOnce ==
    /\ \A j \in Markers : NoRepeats(scopeStack[j].argumentsAreComponents)
    /\ CallExit => \A k \in 1..Len(last.errs) : ~AboutBoundIdentifier(last.errs[k])


\* the callee of the last call is a path that is neither in scope nor
\* this-relative nor a built-in keyword
GlobalCallee ==
    /\ Callee.type = "PathExpression"
    /\ ~last.bound
    /\ ~pathThis(Callee.text)
    /\ Callee.text \notin builtInKeywords

SingleSegment == Len(pathParts(Callee.text)) = 1

DoNotAgree == <<"unsupported ambiguity between helper and component">>

\* C30: with an audit collector registered the walk resolves as with the
\* three toggles on, whatever they are set to: an upper-case tag and a block
\* callee resolve to their component, a sub-call's callee to a helper, an
\* element modifier to a modifier, a top-level curly call with arguments and
\* no disambiguate entry to the ambiguous component, each bound and
\* substituted; nothing is thrown and the collector is never handed the
\* error about toggles that do not agree.
C30_AuditEnablesEveryToggle ==
    auditHandler
    => /\ thrown = <<>>
       /\ \A k \in 1..Len(audit) : audit[k].message # DoNotAgree
       /\ ( /\ last.handler = "ElementNode" /\ ~last.bound
            /\ startsUpperCase(last.before.text)
            /\ dasherize(last.before.text) \notin builtInKeywords
            /\ ~isIgnoredComponent(dasherize(last.before.text)) )
          => TagResolved
       /\ ( /\ last.handler = "BlockStatement" /\ GlobalCallee /\ SingleSegment
            /\ ~isIgnoredComponent(Callee.text) )
          => /\ last.res.type = "component"
             /\ CalleeBoundTo(ComponentsSpecifier(Callee.text))
       /\ ( /\ last.handler = "SubExpression" /\ GlobalCallee /\ SingleSegment
            /\ ~pathData(Callee.text)
            /\ ~(Callee.text \in Keywords /\ Len(last.before.params) > 0) )
          => /\ last.res.type = "helper"
             /\ CalleeBoundTo(<<"#embroider_compat/helpers/">> \o Callee.text)
       /\ ( /\ last.handler = "ElementModifierStatement" /\ GlobalCallee /\ SingleSegment
            /\ ~pathData(Callee.text) )
          => /\ last.res.type = "modifier"
             /\ CalleeBoundTo(<<"#embroider_compat/modifiers/">> \o Callee.text)
       /\ (AmbiguousCurly /\ HasArgs /\ disambiguateOf(Callee.text) = <<>>)
          => /\ last.res.type = "component"
             /\ CalleeBoundTo(AmbiguousSpecifier(Callee.text))

\* a modifier resolved under a collector with the three toggles off
C30_Witness ==
    /\ auditHandler
    /\ ~options.staticComponents /\ ~options.staticHelpers /\ ~options.staticModifiers
    /\ last.handler = "ElementModifierStatement"
    /\ last.res.type = "modifier"
    /\ CalleeBoundTo(<<"#embroider_compat/modifiers/", "hello-world">>)

\* a curly call with arguments resolved under a collector with one toggle on
C30_WitnessAmbiguous ==
    /\ auditHandler
    /\ options.staticComponents /\ ~options.staticHelpers
    /\ AmbiguousCurly /\ HasArgs
    /\ last.res.type = "component"

====
